---------------------------- MODULE Spec2Model ----------------------------
(***************************************************************************)
(* A model of the GNSS gap-filling engine of gnss-compute-server:          *)
(* DataGenerator (generateRandomData, generateConservativeExtension,       *)
(* generateSeamlessData, generateTransitionData) with the services it      *)
(* drives: RandomNumberGenerator, StatisticsCalculator,                    *)
(* StationCharacteristicsInferrer, EnvironmentalFactorCalculator,          *)
(* TimestampManager and DataCompatibilityAnalyzer.                         *)
(*                                                                         *)
(* Number representation.  The program computes in IEEE doubles; the model *)
(* computes in fixed point:                                                *)
(*   lengths (E, N, H, standard deviations, thresholds)  1 = 0.00001 m     *)
(*   conservative "variance" figures                     1 = 1e-8          *)
(*   factors, probabilities, uniform draws               1000 = 1.0        *)
(*   angles                                              1000 = one turn   *)
(*   instants                                            milliseconds      *)
(* Math.sin is Bhaskara's rational approximation (error below 0.0024),     *)
(* Math.sqrt the integer square root, and the Box-Muller radius            *)
(* sqrt(-2 ln u) a 20-step table.  The linear congruential generator is    *)
(* exact: its 32-bit state is kept as two 16-bit limbs.                    *)
(***************************************************************************)
EXTENDS Integers, Sequences, FiniteSets, TLC

(***************************************************************************)
(* Fixed-point arithmetic                                                  *)
(***************************************************************************)

\* The non-finite number: what Math.abs(undefined - 1013.25) evaluates to.
NaN == -1073741824

Abs(x) == IF x < 0 THEN -x ELSE x

Max(a, b) == IF a >= b THEN a ELSE b

Min(a, b) == IF a <= b THEN a ELSE b

\* x * n / d rounded toward zero, computed without leaving 32 bits (d > 0).
MulDiv(x, n, d) ==
    LET a == Abs(x)
        b == Abs(n)
        m == (a \div d) * b + ((a % d) * b) \div d
    IN IF (x < 0) = (n < 0) THEN m ELSE -m

\* x * f for a factor f in thousandths.
MulP(x, f) == MulDiv(x, f, 1000)

RECURSIVE SqrtIter(_, _)
SqrtIter(x, r) ==
    LET r2 == (r + x \div r) \div 2
    IN IF r2 >= r THEN r ELSE SqrtIter(x, r2)

\* Math.sqrt on non-negative integers.
ISqrt(x) == IF x <= 0 THEN 0 ELSE SqrtIter(x, x)

\* Math.sin(2 * PI * t / 1000) in thousandths.
SinP(t) ==
    LET y == t % 1000
        z == IF y < 500 THEN y ELSE y - 500
        p == z * (500 - z)
        s == (4000 * p) \div (312500 - p)
    IN IF y < 500 THEN s ELSE -s

\* Math.cos(2 * PI * t / 1000) in thousandths.
CosP(t) == SinP(t + 250)

\* IEEE arithmetic on values that may be NaN.
MulN(x, f) == IF x = NaN \/ f = NaN THEN NaN ELSE MulP(x, f)

AddN(x, y) == IF x = NaN \/ y = NaN THEN NaN ELSE x + y

SubN(x, y) == IF x = NaN \/ y = NaN THEN NaN ELSE x - y

IsFinite(x) == x # NaN

\* a > b in IEEE arithmetic: false when either side is NaN.
GreaterN(a, b) == a # NaN /\ b # NaN /\ a > b

AbsN(x) == IF x = NaN THEN NaN ELSE Abs(x)

RECURSIVE SeqSum(_)
SeqSum(s) ==
    IF Len(s) = 0 THEN 0
    ELSE IF Len(s) = 1 THEN s[1]
    ELSE SeqSum(SubSeq(s, 1, Len(s) \div 2))
             + SeqSum(SubSeq(s, Len(s) \div 2 + 1, Len(s)))

RECURSIVE SeqMax(_)
SeqMax(s) ==
    IF Len(s) = 1 THEN s[1]
    ELSE Max(SeqMax(SubSeq(s, 1, Len(s) \div 2)),
             SeqMax(SubSeq(s, Len(s) \div 2 + 1, Len(s))))

\* const value = ...; followed by the rest of the method: the statements of a
\* method run in the order they are written, each evaluated once.
With(value, Rest(_)) == IF value = value THEN Rest(value) ELSE Rest(value)

(***************************************************************************)
(* RandomNumberGenerator                                                   *)
(***************************************************************************)

\* A number n of the source, 0 <= n < 2^53, is held as its digits in base
\* 65536: n = top * 2^32 + hi * 2^16 + lo.
Limbs(n) == [top |-> 0, hi |-> (n \div 65536) % 65536, lo |-> n % 65536]

\* seededRandom: let state = seed.
seededRandom(seed) == seed

\* The state update reduced modulo 2^48 instead of 0x100000000.
RngStepModulo48(s) ==
    LET p0 == s.lo * 26125
        low == (p0 % 65536) + 62303
        carry == (p0 \div 65536) + (low \div 65536)
        mid == s.hi * 26125 + s.lo * 25 + carry + 15470
    IN [top |-> (s.hi * 25 + mid \div 65536) % 65536, hi |-> mid % 65536,
        lo |-> low % 65536]

\* state = (state * 1664525 + 1013904223) % 0x100000000, on 16-bit limbs:
\* 1664525 = 25 * 65536 + 26125 and 1013904223 = 15470 * 65536 + 62303.
\* The product is exact in double precision while it is below 2^53, which
\* it is for every state below 2^53 / 1664525 (top = 0, or top = 1 with
\* hi < 17030); its residue modulo 2^32 does not depend on top.
RngStep(s) ==
    LET p0 == s.lo * 26125
        cross == (s.hi * 26125 + s.lo * 25) % 65536
        low == (p0 % 65536) + 62303
        carry == (p0 \div 65536) + (low \div 65536)
    IN [top |-> 0, hi |-> (cross + carry + 15470) % 65536, lo |-> low % 65536]

\* state / 0x100000000 in thousandths: the value next() returns.
Uniform(s) == s.top * 1000 + (s.hi * 1000) \div 65536

\* next(): the draw and the state it leaves.
next(rng) == LET s == RngStep(rng) IN [v |-> Uniform(s), rng |-> s]

\* sqrt(-2 ln u), u = 1 - r, in thousandths, by the twentieth r falls in.
GaussRadius ==
    << 225, 395, 517, 620, 714, 802, 887, 970, 1052, 1135,
       1220, 1308, 1401, 1499, 1607, 1727, 1867, 2039, 2276, 2716 >>

\* gaussianRandom(): Box-Muller on two draws.
gaussianRandom(rng) ==
    With(next(rng), LAMBDA d1 :
    With(next(d1.rng), LAMBDA d2 :
    [v |-> MulP(GaussRadius[d1.v \div 50 + 1], CosP(d2.v)), rng |-> d2.rng]))

(***************************************************************************)
(* GnssModel samples: [dateTime, E, N, H, latitude, height].  dateTime is   *)
(* the instant new Date(dateTime) denotes, in milliseconds after local      *)
(* midnight of a day whose getDayOfYear is 209.                             *)
(***************************************************************************)

\* samples.map(s => s.E), and so for N and H
Column(samples, axis) == [i \in 1..Len(samples) |-> samples[i][axis]]

(***************************************************************************)
(* StatisticsCalculator                                                    *)
(***************************************************************************)

\* calculateStandardDeviation; deviations above 0.1 m are squared in
\* millimetres so that the sum of squares stays within 32 bits.
calculateStandardDeviation(values) ==
    IF Len(values) < 2 THEN 100
    ELSE LET n == Len(values)
             mean == MulDiv(SeqSum(values), 1, n)
             devs == [i \in 1..n |-> Abs(values[i] - mean)]
             k == IF SeqMax(devs) > 10000 THEN 100 ELSE 1
             variance ==
                 SeqSum([i \in 1..n |-> (devs[i] \div k) * (devs[i] \div k)])
                     \div (n - 1)
         IN k * ISqrt(variance)

\* analyzeDataStats
analyzeDataStats(samples) ==
    IF Len(samples) < 2
    THEN [eStdDev |-> 200, nStdDev |-> 200, hStdDev |-> 500]
    ELSE [eStdDev |-> Max(calculateStandardDeviation(Column(samples, "E")), 100),
          nStdDev |-> Max(calculateStandardDeviation(Column(samples, "N")), 100),
          hStdDev |-> Max(calculateStandardDeviation(Column(samples, "H")), 200)]

\* sorted[k] (1-based) of [...values].sort((a, b) => a - b)
Sorted(values, k) ==
    LET n == Len(values)
        i == CHOOSE i \in 1..n :
                 /\ Cardinality({j \in 1..n : values[j] < values[i]}) < k
                 /\ k <= Cardinality({j \in 1..n : values[j] <= values[i]})
    IN values[i]

\* calculateMedian
calculateMedian(values) ==
    IF Len(values) = 0 THEN 0
    ELSE LET n == Len(values)
             middle == n \div 2
         IN IF n % 2 = 0
            THEN MulDiv(Sorted(values, middle) + Sorted(values, middle + 1), 1, 2)
            ELSE Sorted(values, middle + 1)

\* The |samples[k] - samples[k-1]| of one axis over the last windowSize samples.
Changes(samples, axis, startIndex, windowSize) ==
    [i \in 1..(windowSize - 1) |->
        Abs(samples[startIndex + i + 1][axis] - samples[startIndex + i][axis])]

\* analyzeConservativeStats; the result is in units of 1e-8.
analyzeConservativeStats(samples) ==
    IF Len(samples) < 10
    THEN [eVariance |-> 30000, nVariance |-> 30000, hVariance |-> 80000]
    ELSE LET windowSize == Min(Len(samples), 144)
             startIndex == Len(samples) - windowSize
         IN [eVariance |->
                 Max(calculateMedian(Changes(samples, "E", startIndex, windowSize)), 20) * 300,
             nVariance |->
                 Max(calculateMedian(Changes(samples, "N", startIndex, windowSize)), 20) * 300,
             hVariance |->
                 Max(calculateMedian(Changes(samples, "H", startIndex, windowSize)), 50) * 300]

\* A faulty calculateDiscontinuityThreshold, without the default for windows
\* of fewer than two samples.
ThresholdWithoutDefault(samples, solutionType) ==
    Max(IF solutionType = "static" THEN 500 ELSE 2000,
        Min(5000,
            ((analyzeDataStats(samples).eStdDev + analyzeDataStats(samples).nStdDev
                 + analyzeDataStats(samples).hStdDev) \div 3) * 4))

\* calculateDiscontinuityThreshold
calculateDiscontinuityThreshold(samples, solutionType) ==
    IF Len(samples) < 2 THEN 1000
    ELSE LET stats == analyzeDataStats(samples)
             baseThreshold == IF solutionType = "static" THEN 500 ELSE 2000
             avgVariability == (stats.eStdDev + stats.nStdDev + stats.hStdDev) \div 3
         IN Max(baseThreshold, Min(5000, avgVariability * 4))

\* calculateMedianReference
calculateMedianReference(samples) ==
    IF Len(samples) = 0 THEN [E |-> 0, N |-> 0, H |-> 0]
    ELSE [E |-> calculateMedian(Column(samples, "E")),
          N |-> calculateMedian(Column(samples, "N")),
          H |-> calculateMedian(Column(samples, "H"))]

(***************************************************************************)
(* StationCharacteristicsInferrer                                          *)
(***************************************************************************)

\* Math.sqrt(a*a + b*b + c*c); components above 0.2 m are squared in
\* millimetres.
Hypot(a, b, c) ==
    LET k == IF Max(Abs(a), Max(Abs(b), Abs(c))) > 20000 THEN 100 ELSE 1
        x == Abs(a) \div k
        y == Abs(b) \div k
        z == Abs(c) \div k
    IN k * ISqrt(x * x + y * y + z * z)

\* The per-step 3D movements of a window.
Movements(samples) ==
    [i \in 1..(Len(samples) - 1) |->
        Hypot(samples[i + 1].E - samples[i].E,
              samples[i + 1].N - samples[i].N,
              samples[i + 1].H - samples[i].H)]

\* A faulty detectSolutionType, which classifies a window of fewer than ten
\* samples by its movements instead of calling it static.
DetectByMovement(samples) ==
    IF Len(samples) < 2 THEN "static"
    ELSE IF /\ SeqSum(Movements(samples)) < 1000 * Len(Movements(samples))
            /\ SeqMax(Movements(samples)) < 5000
    THEN "static"
    ELSE "kinematic"

\* A faulty detectSolutionType, which forgets the largest movement.
DetectByMeanOnly(samples) ==
    IF Len(samples) < 10 THEN "static"
    ELSE IF SeqSum(Movements(samples)) < 1000 * Len(Movements(samples))
    THEN "static"
    ELSE "kinematic"

\* detectSolutionType: avgMovement < 0.01 && maxMovement < 0.05
detectSolutionType(samples) ==
    IF Len(samples) < 10 THEN "static"
    ELSE LET movements == Movements(samples)
         IN IF /\ SeqSum(movements) < 1000 * Len(movements)
               /\ SeqMax(movements) < 5000
            THEN "static"
            ELSE "kinematic"

\* inferEnvironment; height is in metres, avgStdDev is passed doubled.
inferEnvironment(height, twiceAvgStdDev, heightStdDev) ==
    IF height > 500 THEN "mountain"
    ELSE IF twiceAvgStdDev > 2 * 500 THEN "urban"
    ELSE IF Abs(height) < 100 /\ twiceAvgStdDev > 2 * 200 THEN "coastal"
    ELSE IF heightStdDev > 1000 /\ height > 200 THEN "forest"
    ELSE "mountain"

\* inferMultipath
inferMultipath(twiceAvgStdDev) ==
    IF twiceAvgStdDev < 2 * 200 THEN "low"
    ELSE IF twiceAvgStdDev > 2 * 400 THEN "high"
    ELSE "medium"

\* inferAtmospheric
inferAtmospheric(heightStdDev) ==
    IF heightStdDev > 1500 THEN "extreme" ELSE "variable"

\* inferInstallationQuality: overallVariability = avgStdDev + heightStdDev
inferInstallationQuality(twiceAvgStdDev, heightStdDev) ==
    LET twiceOverall == twiceAvgStdDev + 2 * heightStdDev
    IN IF twiceOverall < 2 * 500 THEN "excellent"
       ELSE IF twiceOverall > 2 * 1200 THEN "good"
       ELSE "fair"

\* getDefaultStationCharacteristics
getDefaultStationCharacteristics ==
    [latitude |-> 24, altitude |-> 2000, environment |-> "mountain",
     multipath |-> "medium", atmospheric |-> "variable",
     installationQuality |-> "excellent"]

\* inferStationCharacteristics
inferStationCharacteristics(samples, stats) ==
    IF Len(samples) = 0 THEN getDefaultStationCharacteristics
    ELSE LET firstSample == samples[1]
             twiceAvg == stats.eStdDev + stats.nStdDev
         IN [latitude |-> firstSample.latitude,
             altitude |-> firstSample.height,
             environment |-> inferEnvironment(firstSample.height, twiceAvg, stats.hStdDev),
             multipath |-> inferMultipath(twiceAvg),
             atmospheric |-> inferAtmospheric(stats.hStdDev),
             installationQuality |-> inferInstallationQuality(twiceAvg, stats.hStdDev)]

(***************************************************************************)
(* EnvironmentalFactorCalculator                                           *)
(***************************************************************************)

environmentFactors(e) ==
    CASE e = "urban" -> 1500
      [] e = "rural" -> 1000
      [] e = "coastal" -> 1200
      [] e = "mountain" -> 1400
      [] e = "forest" -> 2000

multipathFactors(m) ==
    CASE m = "low" -> 1000 [] m = "medium" -> 1300 [] m = "high" -> 1800

qualityFactors(q) ==
    CASE q = "excellent" -> 800 [] q = "good" -> 1000 [] q = "fair" -> 1400

atmosphericFactors(a) ==
    CASE a = "stable" -> 1000 [] a = "variable" -> 1200 [] a = "extreme" -> 1600

\* calculateEnvironmentalNoiseFactor; timeOfDay is in thousandths of an hour,
\* -1 when the argument is omitted.
calculateEnvironmentalNoiseFactor(c, timeOfDay) ==
    LET f1 == environmentFactors(c.environment)
        f2 == MulP(f1, multipathFactors(c.multipath))
        f3 == MulP(f2, qualityFactors(c.installationQuality))
        f4 == MulP(f3, atmosphericFactors(c.atmospheric))
        f5 == IF timeOfDay # -1
              THEN MulP(f4, 1000 + MulP(300, SinP(timeOfDay \div 24)))
              ELSE f4
    IN IF c.altitude > 1000
       THEN MulP(f5, 1000 + ((c.altitude - 1000) * 200) \div 10000)
       ELSE f5

\* getDefaultWeatherConditions; pressure is in hundredths of a hPa, cloudCover
\* in thousandths, humidity in percent, visibility in km.
getDefaultWeatherConditions ==
    [humidity |-> 60, pressure |-> 101325, precipitation |-> FALSE,
     cloudCover |-> 300, visibility |-> 15]

\* weatherFactor of applyWeatherEffects, NaN when a field is not a number.
weatherFactor(weather) ==
    LET f1 == IF weather.precipitation THEN 1500 ELSE 1000
        f2 == MulP(f1, 1000 + MulP(weather.cloudCover, 200))
        pressureEffect ==
            IF weather.pressure = NaN THEN NaN
            ELSE (Abs(weather.pressure - 101325) * 100) \div 101325
        f3 == MulN(f2, AddN(1000, pressureEffect))
        humidityEffect == (Max(0, weather.humidity - 50) * 150) \div 50
        f4 == MulN(f3, 1000 + humidityEffect)
    IN IF weather.visibility < 10
       THEN MulN(f4, 1000 + ((10 - weather.visibility) * 300) \div 10)
       ELSE f4

\* applyWeatherEffects
applyWeatherEffects(baseNoise, weather) == MulN(baseNoise, weatherFactor(weather))

\* getDayOfYear of the instant t.
getDayOfYear(t) == 209 + t \div 86400000

\* getHours() + getMinutes() / 60 of the instant t, in thousandths of an hour.
TimeOfDay(t) == (((t % 86400000) \div 60000) * 1000) \div 60

\* calculateSeasonalFactor
calculateSeasonalFactor(t) ==
    LET dayOfYear == getDayOfYear(t)
        ionosphericSeasonal ==
            1000 + MulP(200, SinP(((dayOfYear - 80) * 100000) \div 36525))
        troposphericSeasonal ==
            1000 + MulP(150, CosP(((dayOfYear - 20) * 100000) \div 36525))
    IN MulP(ionosphericSeasonal, troposphericSeasonal)

\* simulateSatelliteGeometry: the pdop; latitude is in degrees.
simulateSatelliteGeometry(t, latitude) ==
    LET timeInHours == TimeOfDay(t)
        basePDOP == 1500 + MulP(500, SinP(timeInHours \div 12))
                         + MulP(200, SinP(timeInHours \div 24))
                         + (Abs(latitude) * 400) \div 90
                         + (IF Abs(latitude) < 30 THEN 100 ELSE 0)
    IN Max(1000, Min(6000, basePDOP))

(***************************************************************************)
(* TimestampManager                                                        *)
(***************************************************************************)

\* 10 * 60 * 1000
IntervalMs == 600000

\* A faulty getStartTimestamp, which forgets to add the interval.
LastTimestamp(samples) == samples[Len(samples)].dateTime

\* getStartTimestamp
getStartTimestamp(samples) == samples[Len(samples)].dateTime + IntervalMs

\* getExtensionStartTimestamp
getExtensionStartTimestamp(lastKnownPoint) == lastKnownPoint.dateTime + IntervalMs

\* assignSequentialTimestamps
assignSequentialTimestamps(data, startTime) ==
    [i \in 1..Len(data) |->
        [data[i] EXCEPT !.dateTime = startTime + (i - 1) * IntervalMs]]

\* interpolateTimestamp with progress = num / den; new Date(ms) drops the
\* fraction of a millisecond.
interpolateTimestamp(startTime, endTime, num, den) ==
    LET d == endTime - startTime
    IN startTime + (d \div den) * num + ((d % den) * num) \div den

(***************************************************************************)
(* DataGenerator: tuning constants                                         *)
(***************************************************************************)

MAX_TRANSITION_STEPS == 288

MIN_TRANSITION_STEPS == 36

TRANSITION_MULTIPLIER == 4

LONG_GENERATION_THRESHOLD_HOURS == 12

\* 0.01, in thousandths
TRANSITION_VARIATION_SCALE == 10

STATIC_OSCILLATION_ENHANCEMENT == 3600

STATIC_BASIC_NOISE_FACTOR == 1800

STATIC_EXTERNAL_NOISE_FACTOR == 3600

OSCILLATION_ENHANCEMENT == 1600

BASIC_NOISE_FACTOR == 1200

EXTERNAL_NOISE_FACTOR == 2000

TREND_DAMPING_FACTOR == 500

\* 0.0080 m
DRIFT_CORRECTION_THRESHOLD == 800

DRIFT_CORRECTION_STRENGTH == 300

(***************************************************************************)
(* DataGenerator: noise primitives.  Each takes the generator state rng    *)
(* and returns its value v with the state its draws leave.                 *)
(***************************************************************************)

\* generateZeroMeanNoise
generateZeroMeanNoise(rng) == gaussianRandom(rng)

\* The multi-frequency component of generateStabilizedIrregularVariation.
FrequencyComponent(sd, index) ==
    LET highFreq == MulP(SinP(index * 250), 300)
        midFreq == MulP(SinP(index * 50), 500)
        lowFreq == MulP(SinP((index * 1000) \div 60), 400)
    IN MulP(MulP(sd, highFreq + midFreq + lowFreq), 800)

\* generateStabilizedIrregularVariation
generateStabilizedIrregularVariation(rng, baseVariance, index, totalCount, solutionType) ==
    With(ISqrt(baseVariance), LAMBDA sd :
    With(generateZeroMeanNoise(rng), LAMBDA g :
    \* sudden jump
    With(next(g.rng), LAMBDA j1 :
    With(IF j1.v < 60
         THEN With(next(j1.rng), LAMBDA j2 :
              [v |-> MulP(sd, g.v)
                     + MulP(MulP(sd, j2.v - 500),
                            IF solutionType = "static" THEN 1200 ELSE 2000),
               rng |-> j2.rng])
         ELSE [v |-> MulP(sd, g.v), rng |-> j1.rng], LAMBDA a1 :
    \* clustering
    With(next(a1.rng), LAMBDA c1 :
    With(Abs(SinP((index * 1000000) \div (12000 + 8 * c1.v))), LAMBDA clusterPhase :
    With(IF clusterPhase > 700
         THEN With(next(c1.rng), LAMBDA c2 :
              [v |-> MulP(a1.v, 1300 + MulP(400, c2.v)), rng |-> c2.rng])
         ELSE IF clusterPhase < 300
         THEN With(next(c1.rng), LAMBDA c2 :
              [v |-> MulP(a1.v, 500 + MulP(300, c2.v)), rng |-> c2.rng])
         ELSE [v |-> a1.v, rng |-> c1.rng], LAMBDA a2 :
    \* random burst
    With(next(a2.rng), LAMBDA b1 :
    With(IF b1.v < 80
         THEN With(next(b1.rng), LAMBDA b2 :
              [v |-> MulP(a2.v, 1200 + 3 * b2.v), rng |-> b2.rng])
         ELSE [v |-> a2.v, rng |-> b1.rng], LAMBDA a3 :
    \* correlation break
    With(next(a3.rng), LAMBDA t1 :
    With(IF t1.v < 160
         THEN With(next(t1.rng), LAMBDA t2 :
              [v |-> MulP(a3.v, (t2.v - 500) * 4), rng |-> t2.rng])
         ELSE [v |-> a3.v, rng |-> t1.rng], LAMBDA a4 :
    \* multi-frequency component and stabilized weight
    With(next(a4.rng), LAMBDA w :
    [v |-> MulP(a4.v + FrequencyComponent(sd, index), 800 + MulP(300, w.v)),
     rng |-> w.rng]))))))))))))

\* generateStabilizedTimeBasedNoise
generateStabilizedTimeBasedNoise(rng, index, totalCount, stdDev, solutionType) ==
    With(generateStabilizedIrregularVariation(
             rng, stdDev * stdDev, index, totalCount, solutionType), LAMBDA base :
    With(MulP(base.v, IF solutionType = "static"
                      THEN STATIC_BASIC_NOISE_FACTOR ELSE BASIC_NOISE_FACTOR),
         LAMBDA baseNoise :
    With(generateZeroMeanNoise(base.rng), LAMBDA g :
    With(1000 + MulP(200, SinP((2000 * index) \div totalCount))
              + MulP(100, SinP((500 * index) \div totalCount))
              + MulP(50, g.v), LAMBDA timeFactor :
    With(IF solutionType = "static" THEN MulP(timeFactor, 600) ELSE MulP(timeFactor, 800),
         LAMBDA conservativeTimeFactor :
    With(next(g.rng), LAMBDA p :
    IF p.v < (IF solutionType = "static" THEN 20 ELSE 40)
    THEN With(generateStabilizedIrregularVariation(
                  p.rng, stdDev * stdDev, index, totalCount, solutionType), LAMBDA burst :
         [v |-> MulP(baseNoise
                     + MulP(MulP(burst.v,
                                 IF solutionType = "static"
                                 THEN STATIC_EXTERNAL_NOISE_FACTOR
                                 ELSE EXTERNAL_NOISE_FACTOR), 500),
                     conservativeTimeFactor),
          rng |-> burst.rng])
    ELSE [v |-> MulP(baseNoise, conservativeTimeFactor), rng |-> p.rng]))))))

\* generateStabilizedVariation
generateStabilizedVariation(rng, index, totalCount, baseRange, isLongGap) ==
    With(generateStabilizedIrregularVariation(
             rng, baseRange * baseRange, index, totalCount, "static"), LAMBDA base :
    With(MulP(base.v, 600), LAMBDA v0 :
    IF ~isLongGap THEN [v |-> v0, rng |-> base.rng]
    ELSE
    With(next(base.rng), LAMBDA ph :
    With(Abs(SinP((index * (1500 + ph.v \div 2)) \div (2 * totalCount))),
         LAMBDA phaseVariation :
    With(MulP(v0, 1100 + MulP(400, phaseVariation)), LAMBDA v1 :
    With(next(ph.rng), LAMBDA b1 :
    With(IF b1.v < 80
         THEN With(next(b1.rng), LAMBDA b2 :
              [v |-> MulP(v1, 1500 + MulP(1500, b2.v)), rng |-> b2.rng])
         ELSE [v |-> v1, rng |-> b1.rng], LAMBDA a2 :
    With(next(a2.rng), LAMBDA d1 :
    IF d1.v < 50
    THEN With(next(d1.rng), LAMBDA d2 :
         [v |-> MulP(a2.v, 300 + MulP(200, d2.v)), rng |-> d2.rng])
    ELSE [v |-> a2.v, rng |-> d1.rng]))))))))

\* generateConservativeTinyVariation
generateConservativeTinyVariation(rng, range, stabilityFactor) ==
    With(generateZeroMeanNoise(rng), LAMBDA g :
    With(MulP(MulP(MulP(range, g.v), stabilityFactor), 100), LAMBDA baseVariation :
    With(next(g.rng), LAMBDA p :
    IF p.v < 50
    THEN With(generateZeroMeanNoise(p.rng), LAMBDA g2 :
         [v |-> baseVariation + MulP(MulP(MulP(range, g2.v), stabilityFactor), 150),
          rng |-> g2.rng])
    ELSE [v |-> baseVariation, rng |-> p.rng])))

\* generateControlledRandomWalk; variance is in units of 1e-8, so its square
\* root is in units of 0.0001 m.  The regression force reads cumulativeDriftE
\* whichever axis the change is for.
generateControlledRandomWalk(rng, variance, stabilityFactor, cumulativeDriftE) ==
    With(10 * ISqrt(variance), LAMBDA sd :
    With(generateZeroMeanNoise(rng), LAMBDA g :
    With(MulP(MulP(MulP(sd, g.v), stabilityFactor), 200), LAMBDA irregularChange :
    With(IF cumulativeDriftE = NaN THEN NaN ELSE MulP(-cumulativeDriftE, 10),
         LAMBDA regressionForce :
    With(next(g.rng), LAMBDA p :
    IF p.v < 40
    THEN With(next(p.rng), LAMBDA s :
         [v |-> AddN(AddN(irregularChange, regressionForce), MulP(sd, s.v - 500)),
          rng |-> s.rng])
    ELSE [v |-> AddN(irregularChange, regressionForce), rng |-> p.rng])))))

\* Math.exp(-x) for 0 <= x < 1 (x in thousandths), by its Taylor polynomial.
ExpNeg(x) == 1000 - x + (x * x) \div 2000 - (((x * x) \div 1000) * x) \div 6000

\* calculateEnhancedStabilityFactor
calculateEnhancedStabilityFactor(index, totalCount, isLongExtension) ==
    IF isLongExtension
    THEN LET baseFactor == 1000000 \div (1000 + 5 * index)
             timeDamping == ExpNeg((index * 1000) \div (totalCount * 2))
         IN Max(200, MulP(baseFactor, timeDamping))
    ELSE 1000000 \div (1000 + 20 * index)

(***************************************************************************)
(* DataGenerator: trend, drift correction and the two point generators     *)
(***************************************************************************)

RECURSIVE ShortTrend(_, _, _, _)
\* The short-gap loop of generateStabilizedLongTermTrend.
ShortTrend(rng, todo, stdDev, trend) ==
    IF todo <= 0 THEN [v |-> trend, rng |-> rng]
    ELSE With(generateZeroMeanNoise(rng), LAMBDA g :
         With(Append(trend, MulP(MulP(stdDev, g.v), 150)), LAMBDA t :
         ShortTrend(g.rng, todo - 1, stdDev, t)))

\* (this.randomGenerator.next() - 0.5) * trendMagnitude
InitialTrend(trendMagnitude, draw) == MulP(trendMagnitude, draw - 500)

\* (this.randomGenerator.next() - 0.5) * trendMagnitude * 0.05
TrendChange(trendMagnitude, draw) == MulP(MulP(trendMagnitude, draw - 500), 50)

\* The walk without its damping: currentTrend += trendChange alone.
UndampedTrend(currentTrend, trendChange) == currentTrend + trendChange

\* currentTrend *= TREND_DAMPING_FACTOR; currentTrend += trendChange;
DampedTrend(currentTrend, trendChange) ==
    MulP(currentTrend, TREND_DAMPING_FACTOR) + trendChange

RECURSIVE BasePattern(_, _, _, _, _, _)
\* The damped random walk of generateStabilizedLongTermTrend.
BasePattern(rng, todo, trendMagnitude, currentTrend, trendChange, basePattern) ==
    IF todo <= 0 THEN [v |-> basePattern, rng |-> rng]
    ELSE With(Append(basePattern, currentTrend), LAMBDA pattern :
         With(DampedTrend(currentTrend, trendChange), LAMBDA damped :
         With(next(rng), LAMBDA p :
         IF p.v < 50
         THEN With(next(p.rng), LAMBDA c :
              With(TrendChange(trendMagnitude, c.v), LAMBDA nextChange :
              BasePattern(c.rng, todo - 1, trendMagnitude, damped, nextChange, pattern)))
         ELSE BasePattern(p.rng, todo - 1, trendMagnitude, damped, trendChange,
                          pattern))))

\* generateStabilizedLongTermTrend
generateStabilizedLongTermTrend(rng, count, stdDev, isLongGap) ==
    IF ~isLongGap THEN ShortTrend(rng, count, stdDev, <<>>)
    ELSE With(MulP(stdDev, 500), LAMBDA trendMagnitude :
         With(next(rng), LAMBDA d1 :
         With(next(d1.rng), LAMBDA d2 :
         With(BasePattern(d2.rng, count, trendMagnitude,
                          InitialTrend(trendMagnitude, d1.v),
                          TrendChange(trendMagnitude, d2.v), <<>>), LAMBDA base :
         With(generateZeroMeanNoise(base.rng), LAMBDA g :
         With(next(g.rng), LAMBDA ph :
         [v |-> [i \in 1..Len(base.v) |->
                    base.v[i]
                    + MulP(MulP(stdDev, 200),
                           SinP(((i - 1) * 1000000) \div (24000 + 4 * g.v) + ph.v))],
          rng |-> ph.rng]))))))

\* One axis of applyDriftCorrection with the correction added the wrong way:
\* correction = this.cumulativeDrift * strength.
CorrectAxisAway(newValue, reference) ==
    With(SubN(newValue, reference), LAMBDA drift :
    IF GreaterN(AbsN(drift), DRIFT_CORRECTION_THRESHOLD)
    THEN With(MulP(drift, DRIFT_CORRECTION_STRENGTH), LAMBDA correction :
         [c |-> newValue + correction, d |-> drift + correction])
    ELSE [c |-> newValue, d |-> drift])

\* One axis of applyDriftCorrection: the corrected coordinate c and the
\* cumulative drift d the call leaves.
CorrectAxis(newValue, reference) ==
    With(SubN(newValue, reference), LAMBDA drift :
    IF GreaterN(AbsN(drift), DRIFT_CORRECTION_THRESHOLD)
    THEN With(MulP(-drift, DRIFT_CORRECTION_STRENGTH), LAMBDA correction :
         [c |-> newValue + correction, d |-> drift + correction])
    ELSE [c |-> newValue, d |-> drift])

\* applyDriftCorrection
applyDriftCorrection(newE, newN, newH, referencePoint) ==
    With(CorrectAxis(newE, referencePoint.E), LAMBDA e :
    With(CorrectAxis(newN, referencePoint.N), LAMBDA n :
    With(CorrectAxis(newH, referencePoint.H), LAMBDA h :
    [E |-> e.c, N |-> n.c, H |-> h.c,
     cumulativeDriftE |-> e.d, cumulativeDriftN |-> n.d, cumulativeDriftH |-> h.d])))

\* The nine generateStabilizedVariation calls that fill angle, axis, plate,
\* move* and day* of a generated point: the state their draws leave.
RECURSIVE StabilizedVariations(_, _, _, _, _)
StabilizedVariations(rng, ranges, index, totalCount, isLongGap) ==
    IF ranges = <<>> THEN rng
    ELSE With(generateStabilizedVariation(rng, index, totalCount, Head(ranges),
                                          isLongGap), LAMBDA v :
         StabilizedVariations(v.rng, Tail(ranges), index, totalCount, isLongGap))

\* generateStabilizedDataPoint: the point, with the generator state (rng and
\* cumulative drift) the call leaves.
generateStabilizedDataPoint(rng, index, totalCount, baseSample, trendE, trendN, trendH, stats, characteristics, weather, isLongGap, solutionType, samples) ==
    With(getStartTimestamp(samples) + index * IntervalMs, LAMBDA currentTime :
    With(ISqrt(((simulateSatelliteGeometry(currentTime, characteristics.latitude) * 2)
                    \div 5) * 1000), LAMBDA geometryFactor :
    With(generateStabilizedTimeBasedNoise(rng, index, totalCount, stats.eStdDev,
                                          solutionType), LAMBDA nE :
    With(generateStabilizedTimeBasedNoise(nE.rng, index, totalCount, stats.nStdDev,
                                          solutionType), LAMBDA nN :
    With(generateStabilizedTimeBasedNoise(nN.rng, index, totalCount, stats.hStdDev,
                                          solutionType), LAMBDA nH :
    With(MulP(calculateEnvironmentalNoiseFactor(characteristics, TimeOfDay(currentTime)),
              800), LAMBDA timeVaryingEnvFactor :
    With(MulP(calculateSeasonalFactor(currentTime), geometryFactor), LAMBDA sg :
    With(AddN(baseSample.E + trendE,
              MulN(applyWeatherEffects(MulP(nE.v, timeVaryingEnvFactor), weather), sg)),
         LAMBDA newE :
    With(AddN(baseSample.N + trendN,
              MulN(applyWeatherEffects(MulP(nN.v, timeVaryingEnvFactor), weather), sg)),
         LAMBDA newN :
    With(AddN(baseSample.H + trendH,
              MulN(applyWeatherEffects(MulP(nH.v, timeVaryingEnvFactor), weather),
                   MulP(sg, 1100))),
         LAMBDA newH :
    With(applyDriftCorrection(newE, newN, newH, baseSample), LAMBDA correctedPosition :
    With(StabilizedVariations(
             nH.rng,
             << 5000, 3000, 3000,
                MulP(stats.eStdDev, 100), MulP(stats.nStdDev, 100), MulP(stats.hStdDev, 100),
                MulP(stats.eStdDev, 200), MulP(stats.nStdDev, 200), MulP(stats.hStdDev, 200) >>,
             index, totalCount, isLongGap), LAMBDA rngAfter :
    [newModel |-> [dateTime |-> 0,
                   E |-> correctedPosition.E,
                   N |-> correctedPosition.N,
                   H |-> correctedPosition.H,
                   latitude |-> baseSample.latitude,
                   height |-> baseSample.height],
     cumulativeDriftE |-> correctedPosition.cumulativeDriftE,
     cumulativeDriftN |-> correctedPosition.cumulativeDriftN,
     cumulativeDriftH |-> correctedPosition.cumulativeDriftH,
     rng |-> rngAfter]))))))))))))

\* Math.floor of a product of doubles whose exact value is num / den.  A
\* product whose exact value is a whole number can come out just below it
\* (10 * (1.0 - 4 / 5) * 0.5 is 0.9999999999999998) and its floor is then one
\* less: short tells that it did.  Any other product is farther from a whole
\* number than the rounding error.
FloorOfProduct(num, den, short) ==
    IF short /\ num > 0 /\ num % den = 0 THEN num \div den - 1 ELSE num \div den

\* rangeStart and rangeEnd of selectDiverseBaseIndex without the
\* Math.min(samplesLength - 1, ...) of rangeEnd.
BaseIndexRangeUnclamped(samplesLength, currentIndex, totalCount, shortStart, shortEnd) ==
    With(Max(0, FloorOfProduct(samplesLength * (totalCount - currentIndex),
                               2 * totalCount, shortStart)),
         LAMBDA rangeStart :
    [rangeStart |-> rangeStart,
     rangeEnd |-> Max(rangeStart + 1,
                      samplesLength - FloorOfProduct(3 * samplesLength * currentIndex,
                                                     10 * totalCount, shortEnd))])

\* const progress, rangeStart and rangeEnd of selectDiverseBaseIndex
BaseIndexRange(samplesLength, currentIndex, totalCount, shortStart, shortEnd) ==
    With(Max(0, FloorOfProduct(samplesLength * (totalCount - currentIndex),
                               2 * totalCount, shortStart)),
         LAMBDA rangeStart :
    [rangeStart |-> rangeStart,
     rangeEnd |-> Min(samplesLength - 1,
                      Max(rangeStart + 1,
                          samplesLength - FloorOfProduct(3 * samplesLength * currentIndex,
                                                         10 * totalCount, shortEnd)))])

\* rangeStart + Math.floor(draw * (rangeEnd - rangeStart + 1)) (0-based)
BaseIndex(range, draw) ==
    range.rangeStart + (draw * (range.rangeEnd - range.rangeStart + 1)) \div 1000

\* selectDiverseBaseIndex (0-based).  In the calls of the generator here
\* (count 1 and 2, or count 3 with a window of fewer than 5 samples) no
\* product comes out short.
selectDiverseBaseIndex(rng, samplesLength, currentIndex, totalCount) ==
    With(next(rng), LAMBDA d :
    [v |-> BaseIndex(BaseIndexRange(samplesLength, currentIndex, totalCount,
                                    FALSE, FALSE), d.v),
     rng |-> d.rng])

\* generateConservativeTinyVariation for angle, axis, plate, move* and day*
\* of an extension point: the state their draws leave.
RECURSIVE TinyVariations(_, _, _)
TinyVariations(rng, ranges, stabilityFactor) ==
    IF ranges = <<>> THEN rng
    ELSE With(generateConservativeTinyVariation(rng, Head(ranges), stabilityFactor),
              LAMBDA v :
         TinyVariations(v.rng, Tail(ranges), stabilityFactor))

\* generateConservativeDataPointWithControl: the point, with the generator
\* state the call leaves.  st is the generator state the call starts in.
generateConservativeDataPointWithControl(st, index, totalCount, referencePoint, stats, characteristics, weather, isLongExtension, lastKnownPoint) ==
    With(getExtensionStartTimestamp(lastKnownPoint) + index * IntervalMs,
         LAMBDA currentTime :
    With(ISqrt((simulateSatelliteGeometry(currentTime, characteristics.latitude) \div 4)
                   * 1000), LAMBDA conservativeGeometryFactor :
    With((calculateEnhancedStabilityFactor(index, totalCount, isLongExtension) * 1000)
             \div Max(1000, MulP(calculateEnvironmentalNoiseFactor(characteristics, -1),
                                 300)), LAMBDA envStabilityFactor :
    With(generateControlledRandomWalk(
             st.rng, stats.eVariance, envStabilityFactor, st.cumulativeDriftE),
         LAMBDA eChange :
    With(generateControlledRandomWalk(
             eChange.rng, stats.nVariance, envStabilityFactor, st.cumulativeDriftE),
         LAMBDA nChange :
    With(generateControlledRandomWalk(
             nChange.rng, stats.hVariance, envStabilityFactor, st.cumulativeDriftE),
         LAMBDA hChange :
    With(MulP(calculateEnvironmentalNoiseFactor(characteristics, TimeOfDay(currentTime)),
              300), LAMBDA timeVaryingEnvFactor :
    With(MulP(calculateSeasonalFactor(currentTime), conservativeGeometryFactor),
         LAMBDA sg :
    With(AddN(AddN(referencePoint.E, st.cumulativeDriftE),
              MulN(applyWeatherEffects(MulN(eChange.v, timeVaryingEnvFactor), weather),
                   sg)), LAMBDA newE :
    With(AddN(AddN(referencePoint.N, st.cumulativeDriftN),
              MulN(applyWeatherEffects(MulN(nChange.v, timeVaryingEnvFactor), weather),
                   sg)), LAMBDA newN :
    With(AddN(AddN(referencePoint.H, st.cumulativeDriftH),
              MulN(applyWeatherEffects(MulN(hChange.v, timeVaryingEnvFactor), weather),
                   MulP(sg, 1100))), LAMBDA newH :
    With(applyDriftCorrection(newE, newN, newH, referencePoint),
         LAMBDA correctedPosition :
    With(TinyVariations(
             hChange.rng,
             << 30000, 5000, 5000,
                MulP(stats.eVariance, 300), MulP(stats.nVariance, 300), MulP(stats.hVariance, 300),
                MulP(stats.eVariance, 200), MulP(stats.nVariance, 200), MulP(stats.hVariance, 200) >>,
             envStabilityFactor), LAMBDA rngAfter :
    [newModel |-> [dateTime |-> 0,
                   E |-> correctedPosition.E,
                   N |-> correctedPosition.N,
                   H |-> correctedPosition.H,
                   latitude |-> lastKnownPoint.latitude,
                   height |-> lastKnownPoint.height],
     cumulativeDriftE |-> correctedPosition.cumulativeDriftE,
     cumulativeDriftN |-> correctedPosition.cumulativeDriftN,
     cumulativeDriftH |-> correctedPosition.cumulativeDriftH,
     rng |-> rngAfter])))))))))))))

\* adjustStatsForEnvironment
adjustStatsForEnvironment(stats, oscillationFactor, envNoiseFactor) ==
    LET f == MulP(oscillationFactor, envNoiseFactor)
    IN [eStdDev |-> Min(Max(MulP(stats.eStdDev, f), 1000), 2000),
        nStdDev |-> Min(Max(MulP(stats.nStdDev, f), 1000), 2000),
        hStdDev |-> Min(Max(MulP(stats.hStdDev, f), 2000), 3000)]

(***************************************************************************)
(* DataCompatibilityAnalyzer                                               *)
(***************************************************************************)

\* Math.ceil(a / b) for a >= 0, b > 0
CeilDiv(a, b) == (a + b - 1) \div b

\* Math.min(maxSteps, Math.max(minSteps, ...)) forgotten: the steps unclamped.
UnclampedTransitionSteps(maxDelta, threshold, generationDurationHours, minSteps, maxSteps, transitionMultiplier, longGenerationThreshold) ==
    CeilDiv(maxDelta * transitionMultiplier, threshold)
        + (IF generationDurationHours > longGenerationThreshold * 1000
           THEN Min(12, CeilDiv(generationDurationHours, longGenerationThreshold * 1000))
           ELSE 0)

\* A faulty calculateAdaptiveTransitionSteps, which gives the duration bonus to
\* the short generations instead of the long ones.
ReversedBonusTransitionSteps(maxDelta, threshold, generationDurationHours, minSteps, maxSteps, transitionMultiplier, longGenerationThreshold) ==
    Min(maxSteps,
        Max(minSteps,
            CeilDiv(maxDelta * transitionMultiplier, threshold)
                + (IF generationDurationHours < longGenerationThreshold * 1000
                   THEN Min(12, CeilDiv(generationDurationHours,
                                        longGenerationThreshold * 1000))
                   ELSE 0)))

\* calculateAdaptiveTransitionSteps; generationDurationHours is in
\* thousandths of an hour.
calculateAdaptiveTransitionSteps(maxDelta, threshold, generationDurationHours, minSteps, maxSteps, transitionMultiplier, longGenerationThreshold) ==
    LET baseTransitionSteps == CeilDiv(maxDelta * transitionMultiplier, threshold)
        durationBonus ==
            IF generationDurationHours > longGenerationThreshold * 1000
            THEN Min(12, CeilDiv(generationDurationHours, longGenerationThreshold * 1000))
            ELSE 0
    IN Min(maxSteps, Max(minSteps, baseTransitionSteps + durationBonus))

(***************************************************************************)
(* DataGenerator: the public operations.  The generator state st is        *)
(* [rng, cumulativeDriftE, cumulativeDriftN, cumulativeDriftH]; an optional *)
(* argument is <<>> when omitted and <<value>> when given.  An operation   *)
(* returns its output out, the state st it leaves, and trace, the          *)
(* cumulative drift left by each generated point.                          *)
(***************************************************************************)

\* The instance after a point: its drift accumulator and its generator.
Drift(p) ==
    [E |-> p.cumulativeDriftE, N |-> p.cumulativeDriftN, H |-> p.cumulativeDriftH,
     rng |-> p.rng]

StateAfter(p) ==
    [rng |-> p.rng,
     cumulativeDriftE |-> p.cumulativeDriftE,
     cumulativeDriftN |-> p.cumulativeDriftN,
     cumulativeDriftH |-> p.cumulativeDriftH]

\* A faulty reset, which keeps the accumulated drift.
KeepDrift(st, rng) == [st EXCEPT !.rng = rng]

\* this.resetCumulativeDrift(), on an instance whose generator is at rng
ResetDrift(st, rng) ==
    [rng |-> rng, cumulativeDriftE |-> 0, cumulativeDriftN |-> 0, cumulativeDriftH |-> 0]

\* A faulty early return, which hands the window back.
ReturnSamples(st, samples) == [out |-> samples, st |-> st, trace |-> <<>>]

\* return []; the instance is left as it was.
ReturnEmpty(st, samples) == [out |-> <<>>, st |-> st, trace |-> <<>>]

\* for (let i = 0; i < count; i++) of generateRandomData
RECURSIVE RandomDataLoop(_, _, _, _, _)
RandomDataLoop(st, i, c, result, trace) ==
    IF i >= c.count THEN [out |-> result, st |-> st, trace |-> trace]
    ELSE With(selectDiverseBaseIndex(st.rng, Len(c.samples), i, c.count),
              LAMBDA baseIndex :
         With(generateStabilizedDataPoint(
                  baseIndex.rng, i, c.count, c.samples[baseIndex.v + 1],
                  c.trendE[i + 1], c.trendN[i + 1], c.trendH[i + 1],
                  c.adjustedStats, c.characteristics, c.weather,
                  c.isLongGap, c.solutionType, c.samples), LAMBDA p :
         RandomDataLoop(StateAfter(p), i + 1, c, Append(result, p.newModel),
                        Append(trace, Drift(p)))))

\* A faulty generateRandomData, which forgets to reset the seed.
KeepSeed(st) == st.rng

\* this.randomGenerator.resetSeed(baseSeed) of generateRandomData
FillSeed(st) == seededRandom(Limbs(42))

\* generateRandomData
generateRandomData(st, samples, count, stationCharacteristics, weatherConditions) ==
    IF Len(samples) = 0 THEN ReturnEmpty(st, samples)
    ELSE
    With(analyzeDataStats(samples), LAMBDA stats :
    With(IF stationCharacteristics # <<>> THEN stationCharacteristics[1]
         ELSE inferStationCharacteristics(samples, stats),
         LAMBDA inferredCharacteristics :
    With(detectSolutionType(samples), LAMBDA solutionType :
    With(IF weatherConditions # <<>> THEN weatherConditions[1]
         ELSE getDefaultWeatherConditions, LAMBDA defaultWeather :
    With(calculateEnvironmentalNoiseFactor(inferredCharacteristics, -1),
         LAMBDA envNoiseFactor :
    With(adjustStatsForEnvironment(
             stats,
             IF solutionType = "static"
             THEN STATIC_OSCILLATION_ENHANCEMENT ELSE OSCILLATION_ENHANCEMENT,
             envNoiseFactor), LAMBDA adjustedStats :
    With(count > 12, LAMBDA isLongGap :
    With(generateStabilizedLongTermTrend(
             FillSeed(st), count, adjustedStats.eStdDev, isLongGap), LAMBDA trendE :
    With(generateStabilizedLongTermTrend(
             trendE.rng, count, adjustedStats.nStdDev, isLongGap), LAMBDA trendN :
    With(generateStabilizedLongTermTrend(
             trendN.rng, count, adjustedStats.hStdDev, isLongGap), LAMBDA trendH :
    With(ResetDrift(st, trendH.rng), LAMBDA start :
    With([samples |-> samples, count |-> count,
          trendE |-> trendE.v, trendN |-> trendN.v, trendH |-> trendH.v,
          adjustedStats |-> adjustedStats,
          characteristics |-> inferredCharacteristics,
          weather |-> defaultWeather, isLongGap |-> isLongGap,
          solutionType |-> solutionType], LAMBDA context :
    With(RandomDataLoop(start, 0, context, <<>>, <<>>), LAMBDA r :
    [out |-> assignSequentialTimestamps(r.out, getStartTimestamp(samples)),
     st |-> r.st, trace |-> r.trace, start |-> start, context |-> context])))))))))))))

\* A faulty loop, which centres the points on lastKnownPoint instead of the
\* median reference.
RECURSIVE ExtensionLoopFromLastKnown(_, _, _, _, _)
ExtensionLoopFromLastKnown(st, i, c, result, trace) ==
    IF i >= c.count THEN [out |-> result, st |-> st, trace |-> trace]
    ELSE With(generateConservativeDataPointWithControl(
                  st, i, c.count, c.lastKnownPoint, c.adjustedStats,
                  c.characteristics, c.weather, c.isLongExtension, c.lastKnownPoint),
              LAMBDA p :
         ExtensionLoopFromLastKnown(StateAfter(p), i + 1, c, Append(result, p.newModel),
                                    Append(trace, Drift(p))))

\* for (let i = 0; i < count; i++) of generateConservativeExtension
RECURSIVE ExtensionLoop(_, _, _, _, _)
ExtensionLoop(st, i, c, result, trace) ==
    IF i >= c.count THEN [out |-> result, st |-> st, trace |-> trace]
    ELSE With(generateConservativeDataPointWithControl(
                  st, i, c.count, c.medianReference, c.adjustedStats,
                  c.characteristics, c.weather, c.isLongExtension, c.lastKnownPoint),
              LAMBDA p :
         ExtensionLoop(StateAfter(p), i + 1, c, Append(result, p.newModel),
                       Append(trace, Drift(p))))

\* this.randomGenerator.resetSeed(42 + 999) of generateConservativeExtension
ExtensionSeed(st) == seededRandom(Limbs(42 + 999))

\* A faulty guard, off by one in count.
FewToExtend(samples, count) == Len(samples) = 0 \/ count <= 1

\* samples.length === 0 || count <= 0 of generateConservativeExtension
NothingToExtend(samples, count) == Len(samples) = 0 \/ count <= 0

\* generateConservativeExtension
generateConservativeExtension(st, samples, count, lastKnownPoint, stationCharacteristics, weatherConditions) ==
    IF NothingToExtend(samples, count) THEN ReturnEmpty(st, samples)
    ELSE
    With(calculateMedianReference(samples), LAMBDA medianReference :
    With(analyzeDataStats(samples), LAMBDA stats :
    With(IF stationCharacteristics # <<>> THEN stationCharacteristics[1]
         ELSE inferStationCharacteristics(samples, stats),
         LAMBDA inferredCharacteristics :
    With(IF weatherConditions # <<>> THEN weatherConditions[1]
         ELSE getDefaultWeatherConditions, LAMBDA inferredWeather :
    With(detectSolutionType(samples), LAMBDA solutionType :
    With(analyzeConservativeStats(samples), LAMBDA conservativeStats :
    With(calculateEnvironmentalNoiseFactor(inferredCharacteristics, -1),
         LAMBDA envNoiseFactor :
    With(IF solutionType = "static"
         THEN MulP(MulP(STATIC_OSCILLATION_ENHANCEMENT, 800), envNoiseFactor)
         ELSE MulP(MulP(OSCILLATION_ENHANCEMENT, 500), envNoiseFactor),
         LAMBDA extensionOscillationFactor :
    With([eVariance |-> MulP(conservativeStats.eVariance, extensionOscillationFactor),
          nVariance |-> MulP(conservativeStats.nVariance, extensionOscillationFactor),
          hVariance |-> MulP(conservativeStats.hVariance, extensionOscillationFactor)],
         LAMBDA scaled :
    With(IF solutionType = "static"
         THEN [eVariance |-> Min(scaled.eVariance, 1000000),
               nVariance |-> Min(scaled.nVariance, 1000000),
               hVariance |-> Min(scaled.hVariance, 2000000)]
         ELSE scaled, LAMBDA adjustedStats :
    With(ResetDrift(st, ExtensionSeed(st)), LAMBDA start :
    With([count |-> count, medianReference |-> medianReference,
          adjustedStats |-> adjustedStats,
          characteristics |-> inferredCharacteristics,
          weather |-> inferredWeather,
          isLongExtension |-> count > 432,
          lastKnownPoint |-> lastKnownPoint], LAMBDA context :
    With(ExtensionLoop(start, 0, context, <<>>, <<>>), LAMBDA r :
    [out |-> assignSequentialTimestamps(
                 r.out, getExtensionStartTimestamp(lastKnownPoint)),
     st |-> r.st, trace |-> r.trace, start |-> start, context |-> context])))))))))))))

(***************************************************************************)
(* DataGenerator: transition and seamless generation.  The progress of a   *)
(* transition step is the fraction num / den; the smoothed progress is in   *)
(* units of 0.0001.                                                         *)
(***************************************************************************)

\* improvedTransitionCurve at progress = num / den
improvedTransitionCurve(num, den) ==
    With((num * 10000) \div den, LAMBDA t :
    With((t * t) \div 10000, LAMBDA t2 :
    With((t2 * t) \div 10000, LAMBDA t3 :
    Max(0, Min(10000, 3 * t2 - 2 * t3)))))

\* interpolateValue
interpolateValue(start, end, progress) == start + MulDiv(end - start, progress, 10000)

\* A faulty blend, which steps away from the real data.
BlendAway(start, delta, smoothProgress, randomVariation) ==
    start - MulDiv(delta, smoothProgress, 10000) + randomVariation

\* lastGenerated.E + deltaE * smoothProgress + randomVariationE
Blend(start, delta, smoothProgress, randomVariation) ==
    start + MulDiv(delta, smoothProgress, 10000) + randomVariation

\* The body of the loop of generateTransitionData: step i.
TransitionStep(rng, i, c) ==
    With(improvedTransitionCurve(i, c.transitionSteps + 1), LAMBDA smoothProgress :
    With(Min(50, MulP(Max(Abs(c.deltaE), Max(Abs(c.deltaN), Abs(c.deltaH))),
                      TRANSITION_VARIATION_SCALE)), LAMBDA variationScale :
    With(next(rng), LAMBDA dE :
    With(next(dE.rng), LAMBDA dN :
    With(next(dN.rng), LAMBDA dH :
    [out |-> << [dateTime |-> interpolateTimestamp(c.lastGenerated.dateTime,
                                                   c.firstReal.dateTime,
                                                   i, c.transitionSteps + 1),
                 E |-> Blend(c.lastGenerated.E, c.deltaE, smoothProgress,
                             MulP(variationScale, dE.v - 500)),
                 N |-> Blend(c.lastGenerated.N, c.deltaN, smoothProgress,
                             MulP(variationScale, dN.v - 500)),
                 H |-> Blend(c.lastGenerated.H, c.deltaH, smoothProgress,
                             MulP(MulP(variationScale, dH.v - 500), 1200)),
                 latitude |-> interpolateValue(c.lastGenerated.latitude,
                                               c.firstReal.latitude, smoothProgress),
                 height |-> interpolateValue(c.lastGenerated.height,
                                             c.firstReal.height, smoothProgress)] >>,
     rng |-> dH.rng])))))

\* for (let i = 1; i <= transitionSteps; i++) of generateTransitionData: the
\* steps from..to in order, the second half of the range after the first.
RECURSIVE TransitionLoop(_, _, _, _)
TransitionLoop(rng, from, to, c) ==
    IF from > to THEN [out |-> <<>>, rng |-> rng]
    ELSE IF from = to THEN TransitionStep(rng, from, c)
    ELSE With(TransitionLoop(rng, from, (from + to) \div 2, c), LAMBDA first :
         With(TransitionLoop(first.rng, (from + to) \div 2 + 1, to, c), LAMBDA second :
         [out |-> first.out \o second.out, rng |-> second.rng]))

\* generateTransitionData, on finite coordinates
generateTransitionData(st, generatedData, targetRealData, transitionSteps) ==
    IF Len(generatedData) = 0 \/ Len(targetRealData) = 0
    THEN [out |-> <<>>, st |-> st]
    ELSE With(generatedData[Len(generatedData)], LAMBDA lastGenerated :
         With(targetRealData[1], LAMBDA firstReal :
         With(TransitionLoop(
                  st.rng, 1, transitionSteps,
                  [transitionSteps |-> transitionSteps,
                   lastGenerated |-> lastGenerated, firstReal |-> firstReal,
                   deltaE |-> firstReal.E - lastGenerated.E,
                   deltaN |-> firstReal.N - lastGenerated.N,
                   deltaH |-> firstReal.H - lastGenerated.H]), LAMBDA r :
         [out |-> r.out, st |-> [st EXCEPT !.rng = r.rng]])))

\* A decision against the threshold itself, not against a fifth of it.
ExceedsThreshold(maxDelta, discontinuityThreshold) ==
    GreaterN(maxDelta, discontinuityThreshold)

\* const adjustedThreshold = discontinuityThreshold * 0.2;
\* if (maxDelta > adjustedThreshold)
ExceedsAdjustedThreshold(maxDelta, discontinuityThreshold) ==
    GreaterN(maxDelta, MulP(discontinuityThreshold, 200))

\* The transitionSteps generateSeamlessData passes to generateTransitionData:
\* Math.floor(adaptiveTransitionSteps), after the enlargement for large gaps.
SeamlessTransitionSteps(maxDelta, discontinuityThreshold, mainLength) ==
    LET adaptiveTransitionSteps ==
            calculateAdaptiveTransitionSteps(
                maxDelta, discontinuityThreshold, (mainLength * 1000) \div 6,
                MIN_TRANSITION_STEPS, MAX_TRANSITION_STEPS,
                TRANSITION_MULTIPLIER, LONG_GENERATION_THRESHOLD_HOURS)
    IN IF maxDelta > discontinuityThreshold * 2
       THEN Min((adaptiveTransitionSteps * 3) \div 2, MAX_TRANSITION_STEPS)
       ELSE adaptiveTransitionSteps

\* DataCompatibilityAnalyzer.detectSolutionType, the analyzer's own copy
analyzerDetectSolutionType(samples) ==
    IF Len(samples) < 10 THEN "static"
    ELSE LET movements == Movements(samples)
         IN IF /\ SeqSum(movements) < 1000 * Len(movements)
               /\ SeqMax(movements) < 5000
            THEN "static"
            ELSE "kinematic"

\* [...generatedData.slice(-10), ...realData.slice(0, 10)]
JoinWindow(generatedData, realData) ==
    SubSeq(generatedData, Max(1, Len(generatedData) - 9), Len(generatedData))
        \o SubSeq(realData, 1, Min(10, Len(realData)))

\* analyzeDataCompatibility
analyzeDataCompatibility(generatedData, realData) ==
    IF Len(generatedData) = 0 \/ Len(realData) = 0
    THEN [maxDiscontinuity |-> 0, averageDiscontinuity |-> 0,
          recommendedTransitionSteps |-> 0, isTransitionNeeded |-> FALSE]
    ELSE LET lastGenerated == generatedData[Len(generatedData)]
             firstReal == realData[1]
             deltaE == AbsN(SubN(firstReal.E, lastGenerated.E))
             deltaN == AbsN(SubN(firstReal.N, lastGenerated.N))
             deltaH == AbsN(SubN(firstReal.H, lastGenerated.H))
             maxDiscontinuity ==
                 IF deltaE = NaN \/ deltaN = NaN \/ deltaH = NaN THEN NaN
                 ELSE Max(deltaE, Max(deltaN, deltaH))
             window == JoinWindow(generatedData, realData)
             threshold ==
                 calculateDiscontinuityThreshold(window, analyzerDetectSolutionType(window))
             isTransitionNeeded == GreaterN(maxDiscontinuity, threshold)
         IN [maxDiscontinuity |-> maxDiscontinuity,
             averageDiscontinuity |->
                 IF maxDiscontinuity = NaN THEN NaN ELSE (deltaE + deltaN + deltaH) \div 3,
             recommendedTransitionSteps |->
                 IF isTransitionNeeded
                 THEN Min(5, Max(2, CeilDiv(maxDiscontinuity, threshold)))
                 ELSE 0,
             isTransitionNeeded |-> isTransitionNeeded]

\* Math.max(a, b, c) in IEEE arithmetic
MaxN(a, b, c) == IF a = NaN \/ b = NaN \/ c = NaN THEN NaN ELSE Max(a, Max(b, c))

\* What generateSeamlessData returns when it appends no transition.
Plain(main) ==
    [out |-> main.out, st |-> main.st, trace |-> main.trace,
     threw |-> FALSE, mainLength |-> Len(main.out), transitionSteps |-> 0]

\* generateSeamlessData.  threw is TRUE when the call ends in the TypeError
\* that reading a property of undefined raises; mainLength is the length of
\* mainData and transitionSteps the number of transition points appended.
generateSeamlessData(st, samples, count, nextRealData, stationCharacteristics, weatherConditions) ==
    With(generateRandomData(st, samples, count, stationCharacteristics,
                            weatherConditions), LAMBDA main :
    IF nextRealData = <<>> \/ Len(nextRealData[1]) = 0 THEN Plain(main)
    ELSE IF Len(main.out) = 0
    THEN \* lastGenerated is undefined: firstReal.E - lastGenerated.E throws
         [Plain(main) EXCEPT !.threw = TRUE]
    ELSE
    With(main.out[Len(main.out)], LAMBDA lastGenerated :
    With(nextRealData[1][1], LAMBDA firstReal :
    With(detectSolutionType(samples), LAMBDA solutionType :
    With(calculateDiscontinuityThreshold(samples, solutionType),
         LAMBDA discontinuityThreshold :
    With(MaxN(AbsN(SubN(firstReal.E, lastGenerated.E)),
              AbsN(SubN(firstReal.N, lastGenerated.N)),
              AbsN(SubN(firstReal.H, lastGenerated.H))), LAMBDA maxDelta :
    IF ~ExceedsAdjustedThreshold(maxDelta, discontinuityThreshold) THEN Plain(main)
    ELSE
    With(SeamlessTransitionSteps(maxDelta, discontinuityThreshold, Len(main.out)),
         LAMBDA steps :
    With(generateTransitionData(main.st, main.out, nextRealData[1], steps),
         LAMBDA transitionData :
    [out |-> main.out \o transitionData.out,
     st |-> transitionData.st, trace |-> main.trace,
     threw |-> FALSE, mainLength |-> Len(main.out),
     transitionSteps |-> Len(transitionData.out)]))))))))

(***************************************************************************)
(* The inputs the operations are called with                               *)
(***************************************************************************)

\* The largest count an operation is called with.
MaxCount == 2

\* The number of calls made on one DataGenerator instance.
MaxCalls == 2

\* The largest step between the two samples of a window, in metres.
MaxJump == 3

\* A GnssModel sample
Sample(t, e, n, h) ==
    [dateTime |-> t, E |-> e, N |-> n, H |-> h, latitude |-> 24, height |-> 1200]

EmptyWindow == <<>>

SingleWindow == << Sample(0, 0, 0, 0) >>

\* Ten samples of a static station: millimetre scatter
StaticWindow ==
    [i \in 1..10 |-> Sample((i - 1) * IntervalMs, (i % 2) * 200, (i % 3) * 100,
                            (i % 2) * 300)]

\* Ten samples of a moving receiver: 3 m steps
KinematicWindow ==
    [i \in 1..10 |-> Sample((i - 1) * IntervalMs, (i % 2) * 300000, (i % 3) * 100,
                            (i % 2) * 300)]

Windows == {EmptyWindow, SingleWindow, StaticWindow, KinematicWindow}

Counts == (-1)..MaxCount

\* Two real samples from the instant t on, at e metres east of the origin
RealFrom(t, e) == << Sample(t, e, 0, 0), Sample(t + IntervalMs, e + 100, 0, 0) >>

\* The instant real data resumes after a gap of count samples
ResumeTime(samples, count) ==
    (IF Len(samples) = 0 THEN 0 ELSE samples[Len(samples)].dateTime)
        + (Max(count, 0) + 1) * IntervalMs

\* nextRealData: omitted, empty, or real data resuming after the gap, 3 m or
\* 1 mm east of the origin
NextReals(samples, count) ==
    {<<>>, << <<>> >>,
     << RealFrom(ResumeTime(samples, count), 300000) >>,
     << RealFrom(ResumeTime(samples, count), 100) >>}

\* weatherConditions: omitted, or conditions whose pressure is not a number
Weathers == {<<>>, << [getDefaultWeatherConditions EXCEPT !.pressure = NaN] >>}

\* lastKnownPoint of an extension: the last sample of the window, or a point
\* later than the window
LastKnowns(samples) ==
    {IF Len(samples) = 0 THEN Sample(0, 0, 0, 0) ELSE samples[Len(samples)],
     Sample(20 * IntervalMs, 50, 50, 50)}

\* Steps of whole metres
Jumps == {j * 100000 : j \in 0..MaxJump}

\* The windows of two samples ten minutes apart
TwoSampleWindows ==
    {<< Sample(0, 0, 0, 0), Sample(IntervalMs, e, n, h) >> : e \in Jumps, n \in Jumps,
                                                             h \in Jumps}

\* The displacement from one sample of a window to the next
StepVectors ==
    {<<0, 0, 0>>, <<-999, 0, 0>>, <<0, 1000, 0>>, <<600, 0, 800>>, <<0, 0, 500>>,
     <<2000, 0, 0>>}

\* The displacement from the last but one sample of a window to the last
LastVectors ==
    {<<999, 0, 0>>, <<0, -4999, 0>>, <<3000, 4000, 0>>, <<0, 0, 30000>>, <<0, 0, 0>>}

WindowLengths == {9, 10, 11}

\* n samples ten minutes apart, each displaced by step from the one before it,
\* except the last, which is displaced by last
SteppedWindow(n, step, last) ==
    [i \in 1..n |->
        Sample((i - 1) * IntervalMs,
               IF i < n THEN (i - 1) * step[1] ELSE (n - 2) * step[1] + last[1],
               IF i < n THEN (i - 1) * step[2] ELSE (n - 2) * step[2] + last[2],
               IF i < n THEN (i - 1) * step[3] ELSE (n - 2) * step[3] + last[3])]

SteppedWindows ==
    {SteppedWindow(n, step, last) : n \in WindowLengths, step \in StepVectors,
                                    last \in LastVectors}

(***************************************************************************)
(* The DataGenerator instance                                              *)
(***************************************************************************)

VARIABLES
    rng,                \* randomGenerator.state
    cumulativeDriftE,
    cumulativeDriftN,
    cumulativeDriftH,
    call,               \* the last call on the instance, with what it returned
    calls               \* the number of calls made on the instance

\* The polling worker (external-worker.ts)
VARIABLES
    isRunning,          \* let isRunning
    processingJobs,     \* let processingJobs = new Set<string>()
    started,            \* per job id, the processJob calls begun and not yet finished
    loop,               \* where mainLoop stands, or "exited" after process.exit
    pulled,             \* the number of tasks the coordinator has handed out
    submitted           \* what the last processJob to end sent to the coordinator

generatorVars == <<rng, cumulativeDriftE, cumulativeDriftN, cumulativeDriftH, call, calls>>

workerVars == <<isRunning, processingJobs, started, loop, pulled, submitted>>

\* The state outside the DataGenerator instance
outerVars == <<workerVars>>

vars == <<generatorVars, outerVars>>

\* The job identifiers the coordinator hands out
JobIds == {"job1", "job2", "job3", "job4"}

\* The most tasks the coordinator hands out.
MaxJobs == 5

\* CONFIG.MAX_CONCURRENT_JOBS: parseInt(process.env.MAX_CONCURRENT_JOBS || '3')
MAX_CONCURRENT_JOBS == 3

\* The module as loaded: no job taken, mainLoop not yet at its while.
WorkerLoaded ==
    /\ isRunning = TRUE
    /\ processingJobs = {}
    /\ started = [j \in JobIds |-> 0]
    /\ loop = "top"
    /\ pulled = 0
    /\ submitted = [jobId |-> "", computed |-> FALSE, payloads |-> <<>>]

\* The state outside the DataGenerator instance when nothing has run
Outside == WorkerLoaded

\* The fields of the instance
State ==
    [rng |-> rng, cumulativeDriftE |-> cumulativeDriftE,
     cumulativeDriftN |-> cumulativeDriftN, cumulativeDriftH |-> cumulativeDriftH]

\* new DataGenerator()
NewGenerator ==
    [rng |-> seededRandom(Limbs(42)), cumulativeDriftE |-> 0, cumulativeDriftN |-> 0,
     cumulativeDriftH |-> 0]

\* dirty: the instance was not as constructed when the call started.
NoCall ==
    [op |-> "new", dirty |-> FALSE, samples |-> <<>>, count |-> 0, nextRealData |-> <<>>,
     weatherConditions |-> <<>>, lastKnownPoint |-> <<>>, out |-> <<>>, threw |-> FALSE,
     trace |-> <<>>, mainLength |-> 0, solutionType |-> "", discontinuityThreshold |-> 0,
     start |-> <<>>, context |-> <<>>]

Init ==
    /\ rng = NewGenerator.rng
    /\ cumulativeDriftE = NewGenerator.cumulativeDriftE
    /\ cumulativeDriftN = NewGenerator.cumulativeDriftN
    /\ cumulativeDriftH = NewGenerator.cumulativeDriftH
    /\ call = NoCall
    /\ calls = 0
    /\ Outside

\* The field of what a call returned, or otherwise when it returns no such field.
Field(r, name, otherwise) == IF name \in DOMAIN r THEN r[name] ELSE otherwise

\* The call c returns r: the instance is left in state r.st, and call records
\* the call with what it returned.
Returns(r, c) ==
    /\ rng' = r.st.rng
    /\ cumulativeDriftE' = r.st.cumulativeDriftE
    /\ cumulativeDriftN' = r.st.cumulativeDriftN
    /\ cumulativeDriftH' = r.st.cumulativeDriftH
    /\ calls' = calls + 1
    /\ UNCHANGED outerVars
    /\ call' = [c EXCEPT !.dirty = (State # NewGenerator),
                         !.out = r.out,
                         !.threw = Field(r, "threw", FALSE),
                         !.trace = Field(r, "trace", <<>>),
                         !.start = Field(r, "start", <<>>),
                         !.context = Field(r, "context", <<>>),
                         !.mainLength = Field(r, "mainLength", Len(r.out))]

GenerateRandomData ==
    /\ calls < MaxCalls
    /\ \E samples \in Windows, count \in Counts :
           LET r == generateRandomData(State, samples, count, <<>>, <<>>)
           IN Returns(r, [NoCall EXCEPT !.op = "generateRandomData",
                                        !.samples = samples, !.count = count])

GenerateConservativeExtension ==
    /\ calls < MaxCalls
    /\ \E samples \in Windows, count \in Counts, weatherConditions \in Weathers :
           \E lastKnownPoint \in LastKnowns(samples) :
               LET r == generateConservativeExtension(State, samples, count, lastKnownPoint,
                                                      <<>>, weatherConditions)
               IN Returns(r, [NoCall EXCEPT !.op = "generateConservativeExtension",
                                            !.samples = samples, !.count = count,
                                            !.weatherConditions = weatherConditions,
                                            !.lastKnownPoint = <<lastKnownPoint>>])

GenerateSeamlessData ==
    /\ calls < MaxCalls
    /\ \E samples \in Windows, count \in Counts :
           \E nextRealData \in NextReals(samples, count) :
               LET r == generateSeamlessData(State, samples, count, nextRealData, <<>>, <<>>)
               IN Returns(r, [NoCall EXCEPT !.op = "generateSeamlessData",
                                            !.samples = samples, !.count = count,
                                            !.nextRealData = nextRealData])

GenerateTransitionData ==
    /\ calls < MaxCalls
    /\ \E generatedData \in {EmptyWindow, StaticWindow} :
           LET targetRealData == RealFrom(ResumeTime(generatedData, 0), 300000)
               r == generateTransitionData(State, generatedData, targetRealData, 2)
           IN Returns(r, [NoCall EXCEPT !.op = "generateTransitionData",
                                        !.samples = generatedData,
                                        !.nextRealData = <<targetRealData>>])

Next ==
    \/ GenerateRandomData
    \/ GenerateConservativeExtension
    \/ GenerateSeamlessData
    \/ GenerateTransitionData

Spec == Init /\ [][Next]_vars

(***************************************************************************)
(* Solution type and discontinuity threshold of a window, as               *)
(* generateSeamlessData computes them, over the windows of two samples.    *)
(***************************************************************************)

WindowInit ==
    /\ rng = NewGenerator.rng
    /\ cumulativeDriftE = NewGenerator.cumulativeDriftE
    /\ cumulativeDriftN = NewGenerator.cumulativeDriftN
    /\ cumulativeDriftH = NewGenerator.cumulativeDriftH
    /\ calls = 0
    /\ Outside
    /\ \E samples \in {EmptyWindow, SingleWindow} \cup TwoSampleWindows \cup SteppedWindows :
           call = [NoCall EXCEPT !.op = "window", !.samples = samples]

\* const solutionType = this.stationInferrer.detectSolutionType(samples);
\* const discontinuityThreshold =
\*     this.statisticsCalculator.calculateDiscontinuityThreshold(samples, solutionType);
CalculateDiscontinuityThreshold ==
    /\ call.op = "window"
    /\ LET solutionType == detectSolutionType(call.samples)
       IN call' = [call EXCEPT
                       !.op = "calculateDiscontinuityThreshold",
                       !.solutionType = solutionType,
                       !.discontinuityThreshold =
                           calculateDiscontinuityThreshold(call.samples, solutionType)]
    /\ UNCHANGED <<rng, cumulativeDriftE, cumulativeDriftN, cumulativeDriftH, calls>>
    /\ UNCHANGED outerVars

\* generateRandomData(samples, 1) for the window
GenerateRandomDataForWindow ==
    /\ call.op = "window"
    /\ LET r == generateRandomData(State, call.samples, 1, <<>>, <<>>)
       IN Returns(r, [call EXCEPT !.op = "generateRandomData", !.count = 1])

\* calculateDiscontinuityThreshold(samples, solutionType), for either solution
\* type
CalculateThresholdForType ==
    /\ call.op = "window"
    /\ \E solutionType \in {"static", "kinematic"} :
           call' = [call EXCEPT
                       !.op = "thresholdForType",
                       !.solutionType = solutionType,
                       !.discontinuityThreshold =
                           calculateDiscontinuityThreshold(call.samples, solutionType)]
    /\ UNCHANGED <<rng, cumulativeDriftE, cumulativeDriftN, cumulativeDriftH, calls>>
    /\ UNCHANGED outerVars

WindowNext ==
    \/ CalculateDiscontinuityThreshold
    \/ GenerateRandomDataForWindow
    \/ CalculateThresholdForType

WindowSpec == WindowInit /\ [][WindowNext]_vars

(***************************************************************************)
(* The polling worker: mainLoop and the processJob calls it starts.  The   *)
(* program runs on one thread, so what runs between two awaits is one step. *)
(***************************************************************************)

\* The number of jobs whose processing has started and not yet finished
Active == started["job1"] + started["job2"] + started["job3"] + started["job4"]

\* processJob(job) up to its first await, and the loop's continue
ProcessJob(jobId) ==
    /\ processingJobs' = processingJobs \cup {jobId}
    /\ started' = [started EXCEPT ![jobId] = @ + 1]
    /\ loop' = "top"

\* while (isRunning), then the check of the concurrency limit
LoopTop ==
    /\ UNCHANGED generatorVars
    /\ loop = "top"
    /\ loop' = IF ~isRunning THEN "stopped"
               ELSE IF Cardinality(processingJobs) >= MAX_CONCURRENT_JOBS THEN "sleep"
               ELSE "pull"
    /\ UNCHANGED <<isRunning, processingJobs, started, pulled, submitted>>

\* await pullTask() resolves, with a task or with null
PullTask ==
    /\ UNCHANGED generatorVars
    /\ loop = "pull"
    /\ \/ /\ pulled < MaxJobs
          /\ pulled' = pulled + 1
          /\ \E jobId \in JobIds : ProcessJob(jobId)
          /\ UNCHANGED <<isRunning, submitted>>
       \/ /\ loop' = "sleep"
          /\ UNCHANGED <<isRunning, processingJobs, started, pulled, submitted>>

\* await new Promise(resolve => setTimeout(resolve, CONFIG.POLL_INTERVAL))
Wake ==
    /\ UNCHANGED generatorVars
    /\ loop = "sleep"
    /\ loop' = "top"
    /\ UNCHANGED <<isRunning, processingJobs, started, pulled, submitted>>

\* const payload of submitResult(jobId, result, error): result and error are
\* <<>> when null.
Payload(jobId, result, error) == [jobId |-> jobId, result |-> result, error |-> error]

\* How await httpClient.post(...) ends: it resolves, or it rejects (and
\* submitResult throws) with the request lost or with the request delivered
\* and its answer lost or late.
PostOutcomes == {"resolved", "rejected", "rejectedAfterDelivery"}

\* The coordinator received the request.
Delivered(outcome) == outcome # "rejected"

\* processJob from its try to its finally: the payloads the coordinator
\* received.  computed: processGnssData resolved (it rejects, or the job has
\* no file content, otherwise); first: the end of the request of
\* submitResult(jobId, result) in the try; second: the end of the request of
\* submitResult(jobId, null, error.message) in the catch.
processJobSubmissions(jobId, computed, first, second) ==
    IF computed /\ first = "resolved"
    THEN << Payload(jobId, << "csv" >>, <<>>) >>
    ELSE (IF computed /\ Delivered(first)
          THEN << Payload(jobId, << "csv" >>, <<>>) >>
          ELSE <<>>)
         \o (IF Delivered(second)
             THEN << Payload(jobId, <<>>, << "error.message" >>) >>
             ELSE <<>>)

\* processJob runs from its try to its finally: it submits, and
\* processingJobs.delete(jobId)
FinishJob ==
    /\ UNCHANGED generatorVars
    /\ loop # "exited"
    /\ \E jobId \in JobIds, computed \in BOOLEAN, first \in PostOutcomes,
          second \in PostOutcomes :
        /\ started[jobId] > 0
        /\ started' = [started EXCEPT ![jobId] = @ - 1]
        /\ processingJobs' = processingJobs \ {jobId}
        /\ submitted' = [jobId |-> jobId, computed |-> computed,
                         payloads |-> processJobSubmissions(jobId, computed, first,
                                                            second)]
        /\ UNCHANGED <<isRunning, loop, pulled>>

\* process.on('SIGTERM'): isRunning = false
Sigterm ==
    /\ UNCHANGED generatorVars
    /\ isRunning
    /\ isRunning' = FALSE
    /\ UNCHANGED <<processingJobs, started, loop, pulled, submitted>>

\* process.exit of the SIGTERM handler: its interval finds processingJobs
\* empty, or its 60 s timer fires.
Exit ==
    /\ UNCHANGED generatorVars
    /\ ~isRunning
    /\ loop # "exited"
    /\ loop' = "exited"
    /\ UNCHANGED <<isRunning, processingJobs, started, pulled, submitted>>

WorkerNext ==
    \/ LoopTop
    \/ PullTask
    \/ Wake
    \/ FinishJob
    \/ Sigterm
    \/ Exit

WorkerSpec == Init /\ [][WorkerNext]_vars

(***************************************************************************)
(* The planning of a transition: calculateAdaptiveTransitionSteps called   *)
(* on its own, and the length generateSeamlessData derives from it.        *)
(***************************************************************************)

\* maxDelta, from none to 20 m
MaxDeltas == {0, 100, 400, 1000, 1001, 4500, 10000, 10001, 50000, 300000, 2000000}

\* discontinuity thresholds: 5 mm, 2 cm, 5 cm
Thresholds == {500, 2000, 5000}

\* mainData.length, from ten minutes to two weeks
MainLengths == {1, 6, 72, 73, 145, 900, 2000}

\* <<minSteps, maxSteps>>: the defaults, and others with minSteps <= maxSteps
StepLimits == {<<MIN_TRANSITION_STEPS, MAX_TRANSITION_STEPS>>, <<1, 5>>, <<10, 10>>}

PlanInit ==
    /\ rng = NewGenerator.rng
    /\ cumulativeDriftE = NewGenerator.cumulativeDriftE
    /\ cumulativeDriftN = NewGenerator.cumulativeDriftN
    /\ cumulativeDriftH = NewGenerator.cumulativeDriftH
    /\ calls = 0
    /\ Outside
    /\ \E maxDelta \in MaxDeltas, threshold \in Thresholds, mainLength \in MainLengths,
          limits \in StepLimits :
           call = [op |-> "plan", maxDelta |-> maxDelta, threshold |-> threshold,
                   mainLength |-> mainLength,
                   generationDurationHours |-> (mainLength * 1000) \div 6,
                   minSteps |-> limits[1], maxSteps |-> limits[2],
                   needed |-> FALSE, steps |-> 0]

\* this.compatibilityAnalyzer.calculateAdaptiveTransitionSteps(...)
CalculateAdaptiveTransitionSteps ==
    /\ call.op = "plan"
    /\ call' = [call EXCEPT
                   !.op = "calculateAdaptiveTransitionSteps",
                   !.steps = calculateAdaptiveTransitionSteps(
                                 call.maxDelta, call.threshold,
                                 call.generationDurationHours,
                                 call.minSteps, call.maxSteps,
                                 TRANSITION_MULTIPLIER, LONG_GENERATION_THRESHOLD_HOURS)]
    /\ UNCHANGED <<rng, cumulativeDriftE, cumulativeDriftN, cumulativeDriftH, calls>>
    /\ UNCHANGED outerVars

\* The decision of generateSeamlessData and the length of the transition it
\* asks generateTransitionData for.
PlanSeamlessTransition ==
    /\ call.op = "plan"
    /\ call.minSteps = MIN_TRANSITION_STEPS
    /\ call.maxSteps = MAX_TRANSITION_STEPS
    /\ LET needed == ExceedsAdjustedThreshold(call.maxDelta, call.threshold)
       IN call' = [call EXCEPT
                      !.op = "generateSeamlessData",
                      !.needed = needed,
                      !.steps = IF needed
                                THEN SeamlessTransitionSteps(call.maxDelta, call.threshold,
                                                             call.mainLength)
                                ELSE 0]
    /\ UNCHANGED <<rng, cumulativeDriftE, cumulativeDriftN, cumulativeDriftH, calls>>
    /\ UNCHANGED outerVars

PlanNext ==
    \/ CalculateAdaptiveTransitionSteps
    \/ PlanSeamlessTransition

PlanSpec == PlanInit /\ [][PlanNext]_vars

(***************************************************************************)
(* DataInterpolationHandler.interpolationData.  The handler owns a         *)
(* DataGenerator, whose state is rng and the cumulative drifts; call holds  *)
(* the handler's locals.  One turn of the gap loop is one step, and the    *)
(* extension to the current time is the last step.                         *)
(***************************************************************************)

\* A null entry of originalGnssModels
null == [null |-> TRUE]

\* The original sample of index k (from 0): ten-minute scatter of a station
Original(k, t) == Sample(t, (k % 7) * 200, (k % 3) * 100, (k % 5) * 300)

\* The time from one original sample to the next: 10, 15, 25 or 30 minutes
Deltas == {IntervalMs, 3 * (IntervalMs \div 2), 5 * (IntervalMs \div 2), 3 * IntervalMs}

\* Original samples from index k and instant t on, one for every delta
RECURSIVE OriginalsFrom(_, _, _)
OriginalsFrom(k, t, deltas) ==
    IF deltas = <<>> THEN << Original(k, t) >>
    ELSE << Original(k, t) >> \o OriginalsFrom(k + 1, t + Head(deltas), Tail(deltas))

\* The most original samples of a short input, less one
MaxOriginals == 3

\* n samples ten minutes apart, with thirty minutes before each index in gaps
RegularOriginals(n, gaps) ==
    [j \in 1..n |->
        Original(j - 1, (j - 1 + 2 * Cardinality({g \in gaps : g <= j - 1})) * IntervalMs)]

\* originalGnssModels: none, up to MaxOriginals + 1 samples with or without
\* gaps, arrays with a null entry, and 291 samples with gaps near the end
OriginalArrays ==
    {<<>>, << null >>, << Original(0, 0), null >>, << null, Original(1, IntervalMs) >>,
     << Original(0, 0), Original(1, 3 * IntervalMs), null >>}
        \cup UNION {{OriginalsFrom(0, 0, deltas) : deltas \in [1..n -> Deltas]} :
                       n \in 0..MaxOriginals}
        \cup {RegularOriginals(291, gaps) : gaps \in {{288, 290}, {287, 289}}}

\* A faulty slice, which takes every sample before index i.
WholePast(originalGnssModels, i) == SubSeq(originalGnssModels, 1, i)

\* this.originalGnssModels.slice(Math.max(0, i - 288), i)
pastDataArray(originalGnssModels, i) ==
    SubSeq(originalGnssModels, Max(0, i - 288) + 1, i)

\* pastDataArray.filter(model => model !== null && model !== undefined)
filteredPastDataArray(array) == SelectSeq(array, LAMBDA model : model # null)

HandlerInit ==
    /\ rng = NewGenerator.rng
    /\ cumulativeDriftE = NewGenerator.cumulativeDriftE
    /\ cumulativeDriftN = NewGenerator.cumulativeDriftN
    /\ cumulativeDriftH = NewGenerator.cumulativeDriftH
    /\ calls = 0
    /\ Outside
    /\ \E originalGnssModels \in OriginalArrays :
           call = [op |-> "interpolationData",
                   originalGnssModels |-> originalGnssModels,
                   i |-> 1,
                   interpolationPastData |->
                       IF Len(originalGnssModels) > 0
                       THEN << originalGnssModels[1] >> ELSE <<>>,
                   filled |-> -1, samples |-> <<>>, diffCount |-> 0,
                   generatedData |-> <<>>, offsetNow |-> 0, extension |-> <<>>,
                   out |-> <<>>]

\* The handler is in a turn of the gap loop.
InLoop == call.op = "interpolationData" /\ call.i < Len(call.originalGnssModels)

\* Reading .dateTime of a null entry throws.
LoopThrows ==
    /\ InLoop
    /\ \/ call.originalGnssModels[call.i] = null
       \/ call.originalGnssModels[call.i + 1] = null
    /\ call' = [call EXCEPT !.op = "threw"]
    /\ UNCHANGED <<rng, cumulativeDriftE, cumulativeDriftN, cumulativeDriftH, calls>>
    /\ UNCHANGED outerVars

\* Math.abs(currDateTime.getTime() - prevDateTime.getTime()), in milliseconds
TimeDiff(originalGnssModels, i) ==
    Abs(originalGnssModels[i + 1].dateTime - originalGnssModels[i].dateTime)

\* A turn of the loop for a sample no more than ten minutes after the one
\* before it.
PushOriginal ==
    /\ InLoop
    /\ call.originalGnssModels[call.i] # null
    /\ call.originalGnssModels[call.i + 1] # null
    /\ TimeDiff(call.originalGnssModels, call.i) <= IntervalMs
    /\ call' = [call EXCEPT
                   !.i = @ + 1,
                   !.interpolationPastData =
                       Append(@, call.originalGnssModels[call.i + 1])]
    /\ UNCHANGED <<rng, cumulativeDriftE, cumulativeDriftN, cumulativeDriftH, calls>>
    /\ UNCHANGED outerVars

\* A faulty turn, which forgets to push the original sample after the
\* generated data.
FilledWithoutOriginal(r, samples, diffCount) ==
    /\ rng' = r.st.rng
    /\ cumulativeDriftE' = r.st.cumulativeDriftE
    /\ cumulativeDriftN' = r.st.cumulativeDriftN
    /\ cumulativeDriftH' = r.st.cumulativeDriftH
    /\ call' = [call EXCEPT
                   !.i = @ + 1,
                   !.interpolationPastData = @ \o r.out,
                   !.filled = call.i,
                   !.samples = samples,
                   !.diffCount = diffCount,
                   !.generatedData = r.out]
    /\ UNCHANGED calls
    /\ UNCHANGED outerVars

\* The generator returns r for the window samples and diffCount: the
\* generated data and the original sample are pushed.
Filled(r, samples, diffCount) ==
    /\ rng' = r.st.rng
    /\ cumulativeDriftE' = r.st.cumulativeDriftE
    /\ cumulativeDriftN' = r.st.cumulativeDriftN
    /\ cumulativeDriftH' = r.st.cumulativeDriftH
    /\ call' = [call EXCEPT
                   !.i = @ + 1,
                   !.interpolationPastData =
                       Append(@ \o r.out, call.originalGnssModels[call.i + 1]),
                   !.filled = call.i,
                   !.samples = samples,
                   !.diffCount = diffCount,
                   !.generatedData = r.out]
    /\ UNCHANGED calls
    /\ UNCHANGED outerVars

\* A faulty count, of one sample too many.
GapDiffCountAndOne(timeDiff) == timeDiff \div IntervalMs

\* const diffCount = Math.floor((timeDiff / 10) - 1);
gapDiffCount(timeDiff) == timeDiff \div IntervalMs - 1

\* A turn of the loop for a sample more than ten minutes after the one before
\* it.
FillGap ==
    /\ InLoop
    /\ call.originalGnssModels[call.i] # null
    /\ call.originalGnssModels[call.i + 1] # null
    /\ TimeDiff(call.originalGnssModels, call.i) > IntervalMs
    /\ LET samples ==
               filteredPastDataArray(pastDataArray(call.originalGnssModels, call.i))
           diffCount == gapDiffCount(TimeDiff(call.originalGnssModels, call.i))
           r == IF Len(samples) > 0
                THEN generateRandomData(State, samples, diffCount, <<>>, <<>>)
                ELSE [out |-> <<>>, st |-> State]
       IN Filled(r, samples, diffCount)

\* new Date(), with the minutes rounded up to a multiple of ten and the
\* seconds dropped: the current time is that of the last sample, 10 min 30 s,
\* 15 min or 25 min 30 s later, or 30 min earlier
OffsetNows(lastDateTime) ==
    {CeilDiv(now \div 60000, 10) * IntervalMs :
         now \in {lastDateTime, lastDateTime + IntervalMs + 30000,
                  lastDateTime + 3 * (IntervalMs \div 2),
                  lastDateTime + 5 * (IntervalMs \div 2) + 30000,
                  lastDateTime - 3 * IntervalMs}}

\* The generator returns r for the extension: interpolationData is returned.
Extended(r, offsetNow) ==
    /\ rng' = r.st.rng
    /\ cumulativeDriftE' = r.st.cumulativeDriftE
    /\ cumulativeDriftN' = r.st.cumulativeDriftN
    /\ cumulativeDriftH' = r.st.cumulativeDriftH
    /\ call' = [call EXCEPT !.op = "returned",
                            !.offsetNow = offsetNow,
                            !.extension = r.out,
                            !.out = call.interpolationPastData \o r.out]
    /\ UNCHANGED calls
    /\ UNCHANGED outerVars

\* After the loop: the extension from the last sample to the current time.
ExtendToNow ==
    /\ call.op = "interpolationData"
    /\ call.i >= Len(call.originalGnssModels)
    /\ LET size == Len(call.interpolationPastData)
       IN IF size = 0 THEN Extended([out |-> <<>>, st |-> State], 0)
          ELSE IF call.interpolationPastData[size] = null
          THEN /\ call' = [call EXCEPT !.op = "threw"]
               /\ UNCHANGED <<rng, cumulativeDriftE, cumulativeDriftN, cumulativeDriftH,
                              calls>>
               /\ UNCHANGED outerVars
          ELSE \E offsetNow \in OffsetNows(call.interpolationPastData[size].dateTime) :
                   LET lastGnssModel == call.interpolationPastData[size]
                       timeDiff == Abs(offsetNow - lastGnssModel.dateTime)
                       to == Min(size, Len(call.originalGnssModels))
                       samples ==
                           filteredPastDataArray(
                               SubSeq(call.originalGnssModels, Max(0, to - 432) + 1, to))
                       r == IF timeDiff > IntervalMs /\ Len(samples) > 0
                            THEN generateConservativeExtension(
                                     State, samples, timeDiff \div IntervalMs,
                                     lastGnssModel, <<>>, <<>>)
                            ELSE [out |-> <<>>, st |-> State]
                   IN Extended(r, offsetNow)

HandlerNext ==
    \/ LoopThrows
    \/ PushOriginal
    \/ FillGap
    \/ ExtendToNow

HandlerSpec == HandlerInit /\ [][HandlerNext]_vars

(***************************************************************************)
(* Properties of the last call                                             *)
(***************************************************************************)

\* The call was given no samples or a count of zero or less.
Degenerate == Len(call.samples) = 0 \/ call.count <= 0

\* The call was given a window and a count of one or more.
Proper == Len(call.samples) > 0 /\ call.count >= 1

\* The call was a fill or an extension.
FillOrExtension == call.op \in {"generateRandomData", "generateConservativeExtension"}

\* The samples generateSeamlessData appended after mainData.
TransitionAppended == call.op = "generateSeamlessData" /\ Len(call.out) > call.mainLength

\* The 3D distance between two samples.
Distance(a, b) == Hypot(a.E - b.E, a.N - b.N, a.H - b.H)

\* C1: generateSeamlessData returns an empty sequence and does not throw
\* whenever samples is empty or count <= 0, whatever nextRealData is.
C1_SeamlessDegenerateReturnsEmpty ==
    (call.op = "generateSeamlessData" /\ Degenerate)
        => (call.out = <<>> /\ ~call.threw)

\* C2: generateRandomData and generateConservativeExtension return an empty
\* sequence, without throwing, whenever samples is empty or count <= 0.
C2_DegenerateReturnsEmpty ==
    (FillOrExtension /\ Degenerate) => (call.out = <<>> /\ ~call.threw)

\* C2 happens: an extension of a window was asked for zero samples or fewer.
C2_DegenerateExtension ==
    /\ call.op = "generateConservativeExtension"
    /\ Len(call.samples) > 0
    /\ call.count <= 0
    /\ call.out = <<>>

\* C3: in every output of generateSeamlessData, transition included, the
\* timestamps are strictly increasing and consecutive ones are exactly ten
\* minutes apart.
C3_SeamlessTimestampsAtInterval ==
    call.op = "generateSeamlessData"
        => \A i \in 1..(Len(call.out) - 1) :
               call.out[i + 1].dateTime - call.out[i].dateTime = IntervalMs

\* C4: for a window and count >= 1, output i (from 0) of generateRandomData is
\* stamped the last window sample's instant plus (i + 1) intervals, and
\* output i of generateConservativeExtension lastKnownPoint's instant plus
\* (i + 1) intervals.
C4_SequentialTimestamps ==
    /\ (call.op = "generateRandomData" /\ Proper)
           => \A i \in 1..Len(call.out) :
                  call.out[i].dateTime
                      = call.samples[Len(call.samples)].dateTime + i * IntervalMs
    /\ (call.op = "generateConservativeExtension" /\ Proper)
           => \A i \in 1..Len(call.out) :
                  call.out[i].dateTime
                      = call.lastKnownPoint[1].dateTime + i * IntervalMs

\* C4 happens: an extension of two samples from a lastKnownPoint that is not
\* the last sample of the window.
C4_ExtensionStamped ==
    /\ call.op = "generateConservativeExtension"
    /\ Len(call.out) = 2
    /\ call.lastKnownPoint[1] # call.samples[Len(call.samples)]

\* C5: a fill or an extension returns what the same call returns on a newly
\* constructed instance, whatever was called on the instance before: the
\* result does not depend on the generator state or the drift left behind.
C5_Reproducible ==
    /\ call.op = "generateRandomData"
           => call.out = generateRandomData(NewGenerator, call.samples, call.count,
                                            <<>>, <<>>).out
    /\ call.op = "generateConservativeExtension"
           => call.out = generateConservativeExtension(
                             NewGenerator, call.samples, call.count,
                             call.lastKnownPoint[1], <<>>, call.weatherConditions).out

\* C5 happens: samples were generated by a fill on an instance that earlier
\* calls had left in a state other than the constructed one.
C5_FillOnUsedInstance ==
    /\ call.op = "generateRandomData"
    /\ call.dirty
    /\ Len(call.out) = 2

\* C6: after each point of a fill or an extension the absolute cumulative
\* drift on each axis is below a small multiple, here twenty times, of
\* DRIFT_CORRECTION_THRESHOLD.
C6_DriftWithinTwentyThresholds ==
    (FillOrExtension /\ call.weatherConditions = <<>>)
        => \A i \in 1..Len(call.trace) :
               /\ Abs(call.trace[i].E) < 20 * DRIFT_CORRECTION_THRESHOLD
               /\ Abs(call.trace[i].N) < 20 * DRIFT_CORRECTION_THRESHOLD
               /\ Abs(call.trace[i].H) < 20 * DRIFT_CORRECTION_THRESHOLD

\* C7: no sample returned by a fill, an extension or a seamless generation has
\* a non-finite E, N or H.
C7_FiniteCoordinates ==
    call.op \in {"generateRandomData", "generateConservativeExtension",
                 "generateSeamlessData"}
        => \A i \in 1..Len(call.out) :
               /\ IsFinite(call.out[i].E)
               /\ IsFinite(call.out[i].N)
               /\ IsFinite(call.out[i].H)

\* C8: when generateSeamlessData appends a transition, the last transition
\* sample is no farther from the first real sample than the last generated
\* sample is.
C8_TransitionClosesIn ==
    TransitionAppended
        => Distance(call.out[Len(call.out)], call.nextRealData[1][1])
               <= Distance(call.out[call.mainLength], call.nextRealData[1][1])

\* C8 happens: a transition was appended towards real data 3 m away, and one
\* towards real data within 0.2 m.
C8_FarTransitionAppended ==
    /\ TransitionAppended
    /\ Distance(call.out[call.mainLength], call.nextRealData[1][1]) > 200000

\* The two samples of the window are 3 m apart.
ThreeMetreJump == Len(call.samples) = 2 /\ Distance(call.samples[1], call.samples[2]) = 300000

\* C9, as the specification states it: a window of two samples 3 m apart is
\* detected kinematic and its discontinuity threshold is 0.02 m.
C9_JumpIsKinematic ==
    (call.op = "calculateDiscontinuityThreshold" /\ ThreeMetreJump)
        => (call.solutionType = "kinematic" /\ call.discontinuityThreshold = 2000)

\* C9, as the code has it: a window of two samples 3 m apart is detected
\* static, as every window of fewer than ten samples is, and its
\* discontinuity threshold is the upper bound 0.05 m.
C9_JumpIsStatic ==
    (call.op = "calculateDiscontinuityThreshold" /\ ThreeMetreJump)
        => (call.solutionType = "static" /\ call.discontinuityThreshold = 5000)

\* C9 happens: the threshold of a window whose samples are 3 m apart, not
\* along one axis, was computed.
C9_JumpClassified ==
    /\ call.op = "calculateDiscontinuityThreshold"
    /\ ThreeMetreJump
    /\ call.samples[2].E = 100000

\* C10: for a window and an integer count >= 1, generateRandomData and
\* generateConservativeExtension return exactly count samples.
C10_ExactlyCount == (FillOrExtension /\ Proper) => Len(call.out) = call.count

\* C10 happens: one sample was asked of an extension, and returned.
C10_OneExtended ==
    /\ call.op = "generateConservativeExtension"
    /\ call.count = 1
    /\ Len(call.out) = 1

\* C11: in the polling worker the number of jobs whose processing has started
\* and not yet finished is at most MAX_CONCURRENT_JOBS, whatever tasks the
\* coordinator returns and however the jobs' completions interleave with the
\* polling loop.
C11_AtMostMaxConcurrent == Active <= MAX_CONCURRENT_JOBS

\* C12: calculateAdaptiveTransitionSteps returns a value within
\* [minSteps, maxSteps] for every maxDelta >= 0, threshold > 0 and duration,
\* so the transition generateSeamlessData appends is between 36 and 288
\* samples long.
C12_StepsClamped ==
    /\ call.op = "calculateAdaptiveTransitionSteps"
           => (call.minSteps <= call.steps /\ call.steps <= call.maxSteps)
    /\ (call.op = "generateSeamlessData" /\ call.needed)
           => call.steps \in MIN_TRANSITION_STEPS..MAX_TRANSITION_STEPS

\* C12 happens: the steps computed for a 20 m gap are cut down to maxSteps,
\* and those of a gap below the threshold raised to minSteps.
C12_ClampedAbove ==
    /\ call.op = "calculateAdaptiveTransitionSteps"
    /\ call.maxDelta = 2000000
    /\ call.steps = call.maxSteps
    /\ call.maxSteps = MAX_TRANSITION_STEPS

\* generateSeamlessData was given real data to resume with and has generated
\* samples before it.
SeamlessDecided ==
    /\ call.op = "generateSeamlessData"
    /\ call.nextRealData # <<>>
    /\ Len(call.nextRealData[1]) > 0
    /\ call.mainLength > 0

\* The largest per-axis absolute difference between two samples
MaxDifference(a, b) == MaxN(AbsN(SubN(a.E, b.E)), AbsN(SubN(a.N, b.N)), AbsN(SubN(a.H, b.H)))

\* C13, as the specification states it: generateSeamlessData appends a
\* transition exactly when analyzeDataCompatibility, for the generated samples
\* and the real data, returns isTransitionNeeded.
C13_AppendsIffPlannerNeeds ==
    SeamlessDecided
        => (TransitionAppended
               <=> analyzeDataCompatibility(SubSeq(call.out, 1, call.mainLength),
                                            call.nextRealData[1]).isTransitionNeeded)

\* C13, as the code has it: generateSeamlessData appends a transition exactly
\* when the largest per-axis absolute difference between the last generated
\* and the first real sample exceeds a fifth of the discontinuity threshold
\* of the window of samples it was given.
C13_AppendsIffExceedsFifth ==
    SeamlessDecided
        => (TransitionAppended
               <=> GreaterN(MaxDifference(call.nextRealData[1][1], call.out[call.mainLength]),
                            MulP(calculateDiscontinuityThreshold(
                                     call.samples, detectSolutionType(call.samples)), 200)))

\* C13 happens: a transition was appended that analyzeDataCompatibility does
\* not find needed.
C13_AppendedThoughNotNeeded ==
    /\ SeamlessDecided
    /\ TransitionAppended
    /\ ~analyzeDataCompatibility(SubSeq(call.out, 1, call.mainLength),
                                 call.nextRealData[1]).isTransitionNeeded

\* The instance before point k (from 1) of the last fill or extension.
Before(k) ==
    IF k = 1 THEN call.start
    ELSE [rng |-> call.trace[k - 1].rng,
          cumulativeDriftE |-> call.trace[k - 1].E,
          cumulativeDriftN |-> call.trace[k - 1].N,
          cumulativeDriftH |-> call.trace[k - 1].H]

\* The instance st with d in the drift accumulator of every axis.
WithDrift(st, d) ==
    [st EXCEPT !.cumulativeDriftE = d, !.cumulativeDriftN = d, !.cumulativeDriftH = d]

\* Point k of the last fill or extension, generated again from the instance st.
Replayed(k, st) ==
    IF call.op = "generateRandomData"
    THEN RandomDataLoop(st, k - 1, call.context, <<>>, <<>>).out[1]
    ELSE ExtensionLoop(st, k - 1, call.context, <<>>, <<>>).out[1]

\* Accumulator values other than the one point k - 1 left.
OtherDrifts == {0, 700, -1300}

\* The position of point k depends on the drift accumulator it starts from.
PointReadsDrift(k) ==
    \E d \in OtherDrifts :
        LET p == Replayed(k, WithDrift(Before(k), d))
        IN <<p.E, p.N, p.H>> # <<call.out[k].E, call.out[k].N, call.out[k].H>>

\* The drift accumulator is zero on every axis when the first point is made.
ZeroAtFirstPoint ==
    /\ call.start.cumulativeDriftE = 0
    /\ call.start.cumulativeDriftN = 0
    /\ call.start.cumulativeDriftH = 0

\* C14, as the specification states it: in a fill and in an extension the
\* accumulator is zero at the first point, and every later point depends on
\* the accumulator the point before it left.
C14_NextPointReadsDrift ==
    (FillOrExtension /\ Proper /\ call.weatherConditions = <<>>)
        => /\ ZeroAtFirstPoint
           /\ \A k \in 2..Len(call.out) : PointReadsDrift(k)

\* C14: in a fill and in an extension the drift accumulator is zero when the
\* first point is generated; every later point of an extension depends on the
\* accumulator the point before it left, and no point of a fill does.
C14_OnlyExtensionReadsDrift ==
    (FillOrExtension /\ Proper /\ call.weatherConditions = <<>>)
        => /\ ZeroAtFirstPoint
           /\ \A k \in 2..Len(call.out) :
                  PointReadsDrift(k) <=> call.op = "generateConservativeExtension"

\* C14 happens: a fill on a used instance generated a second point after its
\* first point had left drift in the accumulator.
C14_FillAfterDrift ==
    /\ call.op = "generateRandomData"
    /\ call.dirty
    /\ Len(call.out) = 2
    /\ call.trace[1].E # 0

\* The windows among the inputs that are detected kinematic.
KinematicWindows == {w \in SteppedWindows : detectSolutionType(w) = "kinematic"}

\* The adjusted standard deviations generateRandomData computes for a window.
AdjustedStats(samples) == generateRandomData(NewGenerator, samples, 1, <<>>, <<>>).context.adjustedStats

\* The largest member of a non-empty set of numbers.
Largest(S) == CHOOSE x \in S : \A y \in S : y <= x

\* The largest adjusted standard deviations of the kinematic windows.
KinematicCeiling ==
    [eStdDev |-> Largest({AdjustedStats(w).eStdDev : w \in KinematicWindows}),
     nStdDev |-> Largest({AdjustedStats(w).nStdDev : w \in KinematicWindows}),
     hStdDev |-> Largest({AdjustedStats(w).hStdDev : w \in KinematicWindows})]

\* C15: the standard deviations generateRandomData adjusts for a window it
\* detects static stay, on each axis, strictly below the largest ones it
\* adjusts for a kinematic window: the upper bounds for static are tighter.
C15_StaticBoundsTighter ==
    (call.op = "generateRandomData" /\ Proper /\ call.context.solutionType = "static")
        => /\ call.context.adjustedStats.eStdDev < KinematicCeiling.eStdDev
           /\ call.context.adjustedStats.nStdDev < KinematicCeiling.nStdDev
           /\ call.context.adjustedStats.hStdDev < KinematicCeiling.hStdDev

\* The lengths, in units of 0.00001 m, of the steps of the stepped windows.
KnownLengths == {0, 500, 999, 1000, 2000, 4999, 5000, 30000}

\* The 3D movement from sample i of the window to the next one.
StepLength(samples, i) ==
    CHOOSE d \in KnownLengths :
        d * d = (samples[i + 1].E - samples[i].E) * (samples[i + 1].E - samples[i].E)
                  + (samples[i + 1].N - samples[i].N) * (samples[i + 1].N - samples[i].N)
                  + (samples[i + 1].H - samples[i].H) * (samples[i + 1].H - samples[i].H)

\* The mean per-step movement of the window is below 0.01 m.
MeanBelowCentimetre(samples) ==
    SeqSum([i \in 1..(Len(samples) - 1) |-> StepLength(samples, i)])
        < 1000 * (Len(samples) - 1)

\* The largest per-step movement of the window is below 0.05 m.
MaxBelowFiveCentimetres(samples) ==
    \A i \in 1..(Len(samples) - 1) : StepLength(samples, i) < 5000

\* What the specification has detectSolutionType return for the window.
StaticOrKinematic(samples) ==
    IF Len(samples) < 10 THEN "static"
    ELSE IF MeanBelowCentimetre(samples) /\ MaxBelowFiveCentimetres(samples)
    THEN "static"
    ELSE "kinematic"

\* C20: for a window of ten samples or more detectSolutionType, and the
\* analyzer's copy of it, return static exactly when the mean per-step 3D
\* movement is below 0.01 m and the largest is below 0.05 m, and kinematic
\* otherwise; for a window of fewer than ten samples they return static.
C20_DetectsByMovement ==
    call.op = "calculateDiscontinuityThreshold"
        => /\ call.solutionType = StaticOrKinematic(call.samples)
           /\ analyzerDetectSolutionType(call.samples) = StaticOrKinematic(call.samples)

\* C20 happens: a window of ten samples whose mean movement is below 0.01 m
\* and whose largest movement is not below 0.05 m was detected kinematic.
C20_KinematicByLargestMovement ==
    /\ call.op = "calculateDiscontinuityThreshold"
    /\ Len(call.samples) = 10
    /\ MeanBelowCentimetre(call.samples)
    /\ ~MaxBelowFiveCentimetres(call.samples)
    /\ call.solutionType = "kinematic"

\* maxDelta values not below d: those of the inputs, and d plus 0.01 mm and
\* plus 2.5 mm.
LargerDeltas(d) == {x \in MaxDeltas : x >= d} \cup {d + 1, d + 250}

\* Durations not below h: those of the inputs, and h plus 0.001 h and plus 1 h.
LongerDurations(h) ==
    {(m * 1000) \div 6 : m \in {x \in MainLengths : (x * 1000) \div 6 >= h}}
        \cup {h + 1, h + 1000}

\* The length of the transition generateSeamlessData appends: none when
\* maxDelta does not exceed the adjusted threshold.
SeamlessLength(maxDelta, threshold, mainLength) ==
    IF ExceedsAdjustedThreshold(maxDelta, threshold)
    THEN SeamlessTransitionSteps(maxDelta, threshold, mainLength)
    ELSE 0

\* C19: calculateAdaptiveTransitionSteps returns no less for a larger maxDelta
\* (threshold and duration the same) and no less for a longer
\* generationDurationHours (maxDelta and threshold the same), and the length
\* generateSeamlessData finally uses is no less for a larger maxDelta.
C19_StepsMonotone ==
    /\ call.op = "calculateAdaptiveTransitionSteps"
           => /\ \A d \in LargerDeltas(call.maxDelta) :
                     calculateAdaptiveTransitionSteps(
                         d, call.threshold, call.generationDurationHours,
                         call.minSteps, call.maxSteps,
                         TRANSITION_MULTIPLIER, LONG_GENERATION_THRESHOLD_HOURS)
                         >= call.steps
              /\ \A h \in LongerDurations(call.generationDurationHours) :
                     calculateAdaptiveTransitionSteps(
                         call.maxDelta, call.threshold, h,
                         call.minSteps, call.maxSteps,
                         TRANSITION_MULTIPLIER, LONG_GENERATION_THRESHOLD_HOURS)
                         >= call.steps
    /\ call.op = "generateSeamlessData"
           => \A d \in LargerDeltas(call.maxDelta) :
                  SeamlessLength(d, call.threshold, call.mainLength) >= call.steps

\* C19 happens: for a generation of more than twelve hours
\* calculateAdaptiveTransitionSteps returned a length strictly between the
\* limits, which a larger maxDelta makes strictly longer.
C19_LongerForLargerDelta ==
    /\ call.op = "calculateAdaptiveTransitionSteps"
    /\ call.generationDurationHours > LONG_GENERATION_THRESHOLD_HOURS * 1000
    /\ call.minSteps < call.steps
    /\ call.steps < call.maxSteps
    /\ \E d \in LargerDeltas(call.maxDelta) :
           calculateAdaptiveTransitionSteps(
               d, call.threshold, call.generationDurationHours,
               call.minSteps, call.maxSteps,
               TRANSITION_MULTIPLIER, LONG_GENERATION_THRESHOLD_HOURS) > call.steps

\* The instance st with d in the drift accumulator of the E axis only.
WithDriftE(st, d) == [st EXCEPT !.cumulativeDriftE = d]

\* E drifts other than the one point k - 1 left: none, 7 mm and 1 m.
OtherDriftsE == {0, 700, 100000}

\* C18: in an extension the regression force of an axis is proportional to the
\* cumulative drift of that axis, so the E drift a point starts from does not
\* influence its N or its H.
C18_RegressionUsesOwnAxis ==
    (call.op = "generateConservativeExtension" /\ Proper /\ call.weatherConditions = <<>>)
        => \A k \in 2..Len(call.out) : \A d \in OtherDriftsE :
               LET p == Replayed(k, WithDriftE(Before(k), d))
               IN <<p.N, p.H>> = <<call.out[k].N, call.out[k].H>>

\* The E, N and H of each sample of a sequence.
Positions(out) == [i \in 1..Len(out) |-> <<out[i].E, out[i].N, out[i].H>>]

\* Displacements of lastKnownPoint: 1 m east, 5 cm south, 3 m up and a little
\* aside.
AnchorShifts == {<<100000, 0, 0>>, <<0, -5000, 0>>, <<7, 7, 300000>>}

\* The point p displaced by shift, everything but its E, N and H kept.
Shifted(p, shift) ==
    [p EXCEPT !.E = @ + shift[1], !.N = @ + shift[2], !.H = @ + shift[3]]

\* C17: the E, N and H of an extension do not depend on the E, N and H of
\* lastKnownPoint: the same call with lastKnownPoint displaced returns the
\* same E, N and H at every index.
C17_IndependentOfLastKnownPosition ==
    (call.op = "generateConservativeExtension" /\ Proper)
        => \A shift \in AnchorShifts :
               Positions(generateConservativeExtension(
                             NewGenerator, call.samples, call.count,
                             Shifted(call.lastKnownPoint[1], shift), <<>>,
                             call.weatherConditions).out)
                   = Positions(call.out)

\* C17 happens: an extension of two samples from a lastKnownPoint that is not
\* at the median of the window.
C17_ExtendedAwayFromMedian ==
    /\ call.op = "generateConservativeExtension"
    /\ Len(call.out) = 2
    /\ call.lastKnownPoint[1].E # calculateMedianReference(call.samples).E
    /\ call.lastKnownPoint[1].H # calculateMedianReference(call.samples).H

\* C16: the window interpolationData passes to generateRandomData for the gap
\* before original sample i holds at least one and at most 288 samples, all
\* of them original samples of index below i, the last one original sample
\* i - 1.
C16_WindowBeforeGap ==
    (call.op \in {"interpolationData", "returned", "threw"} /\ call.filled >= 0)
        => /\ Len(call.samples) > 0
           /\ Len(call.samples) <= 288
           /\ \A k \in 1..Len(call.samples) :
                  \E j \in 0..(call.filled - 1) :
                      call.samples[k] = call.originalGnssModels[j + 1]
           /\ call.samples[Len(call.samples)] = call.originalGnssModels[call.filled]

\* C16 happens: the gap before original sample 290 was filled from the 288
\* samples before it, which leaves the first two original samples out.
C16_WindowOfTwoDays ==
    /\ call.op = "interpolationData"
    /\ call.filled = 290
    /\ Len(call.samples) = 288
    /\ call.samples[1] = call.originalGnssModels[3]

\* The base threshold of the last call's solution type: 5 mm or 2 cm.
BaseThreshold == IF call.solutionType = "static" THEN 500 ELSE 2000

\* max(base, min(0.05, 4 x the mean of the three standard deviations)) for the
\* last call.
AdaptiveThreshold ==
    Max(BaseThreshold,
        Min(5000,
            ((analyzeDataStats(call.samples).eStdDev
                  + analyzeDataStats(call.samples).nStdDev
                  + analyzeDataStats(call.samples).hStdDev) \div 3) * 4))

\* C21, as the specification states it: for every window, those of fewer than
\* two samples included, and each solution type the threshold is
\* max(base, min(0.05, 4 x mean standard deviation)), so at least the base and
\* at most 0.05 m.
C21_ThresholdIsAdaptive ==
    call.op = "thresholdForType"
        => /\ call.discontinuityThreshold = AdaptiveThreshold
           /\ BaseThreshold <= call.discontinuityThreshold
           /\ call.discontinuityThreshold <= 5000

\* C21: for a window of two samples or more and each solution type the
\* threshold is max(base, min(0.05, 4 x mean standard deviation)), so at least
\* the base and at most 0.05 m; for a window of fewer than two samples it is
\* 0.01 m whatever the solution type.
C21_AdaptiveOrDefault ==
    call.op = "thresholdForType"
        => IF Len(call.samples) < 2
           THEN call.discontinuityThreshold = 1000
           ELSE /\ call.discontinuityThreshold = AdaptiveThreshold
                /\ BaseThreshold <= call.discontinuityThreshold
                /\ call.discontinuityThreshold <= 5000

\* C21 happens: the kinematic threshold of a window of one sample was
\* computed, and is below the kinematic base.
C21_DefaultBelowKinematicBase ==
    /\ call.op = "thresholdForType"
    /\ Len(call.samples) = 1
    /\ call.solutionType = "kinematic"
    /\ call.discontinuityThreshold < 2000

\* The handler has filled the gap before original sample call.filled.
GapFilled ==
    call.op \in {"interpolationData", "returned", "threw"} /\ call.filled >= 0

\* The instant of the original sample before the last filled gap, and of the
\* one after it.
BeforeGap == call.originalGnssModels[call.filled].dateTime

AfterGap == call.originalGnssModels[call.filled + 1].dateTime

\* C22: for a gap of g > 10 minutes between original samples i - 1 and i,
\* interpolationData inserts floor(g / 10) - 1 generated samples between the
\* two, stamped every ten minutes from t(i - 1) on; each stamp is strictly
\* between t(i - 1) and t(i), and from the last one to t(i) it is at least 10
\* and less than 20 minutes.
C22_GapFilledAtInterval ==
    GapFilled
        => LET n == (AfterGap - BeforeGap) \div IntervalMs - 1
               past == call.interpolationPastData
           IN /\ Len(call.generatedData) = n
              /\ \A k \in 1..n :
                     /\ call.generatedData[k].dateTime = BeforeGap + k * IntervalMs
                     /\ BeforeGap < call.generatedData[k].dateTime
                     /\ call.generatedData[k].dateTime < AfterGap
              /\ n >= 1 => /\ AfterGap - call.generatedData[n].dateTime >= IntervalMs
                           /\ AfterGap - call.generatedData[n].dateTime < 2 * IntervalMs
              /\ (call.op = "interpolationData" /\ call.i = call.filled + 1)
                     => /\ past[Len(past)] = call.originalGnssModels[call.filled + 1]
                        /\ SubSeq(past, Len(past) - n, Len(past) - 1) = call.generatedData
                        /\ past[Len(past) - n - 1] = call.originalGnssModels[call.filled]

\* C22 happens: a gap of 25 minutes was filled with one sample, 15 minutes
\* before the original sample after the gap.
C22_OneSampleIn25Minutes ==
    /\ GapFilled
    /\ AfterGap - BeforeGap = 5 * (IntervalMs \div 2)
    /\ Len(call.generatedData) = 1
    /\ AfterGap - call.generatedData[1].dateTime = 3 * (IntervalMs \div 2)

\* interpolationData returned a series that is not empty.
Returned == call.op = "returned" /\ Len(call.interpolationPastData) > 0

\* The instant of the last sample of the gap-filled series.
LastDateTime == call.interpolationPastData[Len(call.interpolationPastData)].dateTime

\* C23: when the last sample of the gap-filled series is d > 10 minutes older
\* than the rounded current time, floor(d / 10) samples are appended, stamped
\* every ten minutes after the last sample, the final one not later than the
\* rounded current time and less than ten minutes before it; when d <= 10
\* minutes nothing is appended.
C23_ExtendedToRoundedNow ==
    Returned
        => LET d == call.offsetNow - LastDateTime
               n == d \div IntervalMs
           IN IF d > IntervalMs
              THEN /\ Len(call.extension) = n
                   /\ \A k \in 1..n :
                          call.extension[k].dateTime = LastDateTime + k * IntervalMs
                   /\ call.extension[n].dateTime <= call.offsetNow
                   /\ call.offsetNow - call.extension[n].dateTime < IntervalMs
              ELSE call.extension = <<>>

\* The original samples.
OriginalSamples ==
    {call.originalGnssModels[j] : j \in 1..Len(call.originalGnssModels)}

\* C28: the original samples are in the output of interpolationData, each
\* once, unchanged and in their order, the first of them first: the output
\* without the generated samples is originalGnssModels.
C28_OriginalsKeptInOrder ==
    call.op = "returned"
        => /\ SelectSeq(call.out, LAMBDA model : model \in OriginalSamples)
                  = call.originalGnssModels
           /\ Len(call.originalGnssModels) > 0 => call.out[1] = call.originalGnssModels[1]

\* C28 happens: a series of three original samples or more was returned with
\* generated samples in a gap and after the last sample.
C28_ReturnedWithGeneratedSamples ==
    /\ call.op = "returned"
    /\ Len(call.originalGnssModels) >= 3
    /\ call.filled >= 1
    /\ Len(call.generatedData) > 0
    /\ Len(call.extension) > 0
    /\ Len(call.out) > Len(call.originalGnssModels) + Len(call.extension)

(***************************************************************************)
(* The damped random walk of generateStabilizedLongTermTrend, one          *)
(* iteration of its loop at a time, over every sequence of draws of        *)
(* Draws.  call.pushed is the element the iteration appended to            *)
(* basePattern, call.i the length of basePattern.                          *)
(***************************************************************************)

\* Values of this.randomGenerator.next(), in thousandths.
Draws == {0, 49, 50, 250, 500, 750, 999}

MaxLongGap == 14

\* const isLongGap = count > 12
LongGapCounts == {count \in 1..MaxLongGap : count > 12}

\* adjustedStats.eStdDev, nStdDev, hStdDev: 1 mm, 2 mm, 5 mm and 2 cm.
StdDevs == {100, 200, 500, 2000}

TrendInit ==
    /\ rng = NewGenerator.rng
    /\ cumulativeDriftE = NewGenerator.cumulativeDriftE
    /\ cumulativeDriftN = NewGenerator.cumulativeDriftN
    /\ cumulativeDriftH = NewGenerator.cumulativeDriftH
    /\ calls = 0
    /\ Outside
    /\ \E count \in LongGapCounts, stdDev \in StdDevs :
           call = [op |-> "generateStabilizedLongTermTrend", count |-> count,
                   stdDev |-> stdDev, isLongGap |-> count > 12,
                   trendMagnitude |-> MulP(stdDev, 500),
                   currentTrend |-> 0, trendChange |-> 0,
                   i |-> 0, pushed |-> 0, changes |-> 0]

\* let currentTrend = ...; let trendChange = ...;
StartBasePattern ==
    /\ call.op = "generateStabilizedLongTermTrend"
    /\ call.isLongGap
    /\ \E d1 \in Draws, d2 \in Draws :
           call' = [call EXCEPT
                       !.op = "basePattern",
                       !.currentTrend = InitialTrend(call.trendMagnitude, d1),
                       !.trendChange = TrendChange(call.trendMagnitude, d2)]
    /\ UNCHANGED <<rng, cumulativeDriftE, cumulativeDriftN, cumulativeDriftH, calls>>
    /\ UNCHANGED outerVars

\* One iteration whose draw is not below 0.05: trendChange stays.
PushTrend ==
    /\ call.op = "basePattern"
    /\ call.i < call.count
    /\ \E p \in Draws :
           /\ ~(p < 50)
           /\ call' = [call EXCEPT
                          !.pushed = call.currentTrend,
                          !.i = call.i + 1,
                          !.currentTrend = DampedTrend(call.currentTrend, call.trendChange)]
    /\ UNCHANGED <<rng, cumulativeDriftE, cumulativeDriftN, cumulativeDriftH, calls>>
    /\ UNCHANGED outerVars

\* One iteration whose draw is below 0.05: trendChange is drawn again.
PushTrendAndChange ==
    /\ call.op = "basePattern"
    /\ call.i < call.count
    /\ \E p \in Draws, c \in Draws :
           /\ p < 50
           /\ call' = [call EXCEPT
                          !.pushed = call.currentTrend,
                          !.i = call.i + 1,
                          !.currentTrend = DampedTrend(call.currentTrend, call.trendChange),
                          !.trendChange = TrendChange(call.trendMagnitude, c),
                          !.changes = Min(call.changes + 1, 2)]
    /\ UNCHANGED <<rng, cumulativeDriftE, cumulativeDriftN, cumulativeDriftH, calls>>
    /\ UNCHANGED outerVars

TrendNext ==
    \/ StartBasePattern
    \/ PushTrend
    \/ PushTrendAndChange

TrendSpec == TrendInit /\ [][TrendNext]_vars

\* C24: in a long gap every element of the base pattern of the trend
\* generator is at most half the trend magnitude in absolute value, whatever
\* the count, the draws and the number of elements already built.
C24_BasePatternBounded ==
    (call.op = "basePattern" /\ call.isLongGap /\ call.i >= 1)
        => 2 * Abs(call.pushed) <= call.trendMagnitude

\* C24 happens: the whole base pattern of a long gap was built, its last
\* element is not zero and trendChange was drawn again on the way.
C24_WholePatternBuilt ==
    /\ call.op = "basePattern"
    /\ call.isLongGap
    /\ call.i = call.count
    /\ call.changes >= 2
    /\ call.pushed # 0

(***************************************************************************)
(* RandomNumberGenerator on its own: resetSeed and next in any order.      *)
(***************************************************************************)

\* Seeds: 0, the seeds of the generator, 2^31 - 1, 2^32 - 1, 2^32, 2^32 + 42
\* and the largest seed whose first product is below 2^53.
Seeds ==
    {Limbs(0), Limbs(42), Limbs(42 + 999), Limbs(2147483647),
     [top |-> 0, hi |-> 65535, lo |-> 65535],
     [top |-> 1, hi |-> 0, lo |-> 0],
     [top |-> 1, hi |-> 0, lo |-> 42],
     [top |-> 1, hi |-> 17029, lo |-> 65535]}

MaxDraws == 20

\* new RandomNumberGenerator(): seed = 42
RngInit ==
    /\ rng = seededRandom(Limbs(42))
    /\ cumulativeDriftE = NewGenerator.cumulativeDriftE
    /\ cumulativeDriftN = NewGenerator.cumulativeDriftN
    /\ cumulativeDriftH = NewGenerator.cumulativeDriftH
    /\ calls = 0
    /\ Outside
    /\ call = [op |-> "constructor", seed |-> Limbs(42), draws |-> 0, v |-> 0]

\* resetSeed(seed)
ResetSeed ==
    /\ \E seed \in Seeds :
           /\ rng' = seededRandom(seed)
           /\ call' = [op |-> "resetSeed", seed |-> seed, draws |-> 0, v |-> 0]
    /\ UNCHANGED <<cumulativeDriftE, cumulativeDriftN, cumulativeDriftH, calls>>
    /\ UNCHANGED outerVars

\* The generator after next() returned d.v.
Drew(d) ==
    /\ rng' = d.rng
    /\ call' = [call EXCEPT !.op = "next", !.draws = call.draws + 1, !.v = d.v]

\* next()
Next_ ==
    /\ call.draws < MaxDraws
    /\ LET d == next(rng) IN Drew(d)
    /\ UNCHANGED <<cumulativeDriftE, cumulativeDriftN, cumulativeDriftH, calls>>
    /\ UNCHANGED outerVars

RngNext ==
    \/ ResetSeed
    \/ Next_

RngSpec == RngInit /\ [][RngNext]_vars

\* state is an integer of [0, 2^32).
InRange(state) ==
    /\ state.top = 0
    /\ state.hi \in 0..65535
    /\ state.lo \in 0..65535

\* C25 as stated: after resetSeed with any seed and any number of draws,
\* none included, the state is an integer of [0, 2^32) and every value
\* next() returned is in [0, 1).
C25_StateBelow2To32 ==
    /\ InRange(rng)
    /\ call.op = "next" => call.v \in 0..999

\* C25, amended: the state is an integer of [0, 2^32) after resetSeed with a
\* seed of [0, 2^32) and after every draw whatever the seed, every value
\* next() returned is in [0, 1), and right after resetSeed the state is the
\* seed itself.
C25_StateBelow2To32AfterDraw ==
    /\ call.op = "resetSeed" => rng = call.seed
    /\ (call.op = "resetSeed" /\ InRange(call.seed)) => InRange(rng)
    /\ call.op = "next" => (InRange(rng) /\ call.v \in 0..999)

\* C25 happens: the generator drew twice or more after resetSeed with a seed
\* of 2^32 or more, the last value in the upper half of [0, 1).
C25_DrewAfterWideSeed ==
    /\ call.op = "next"
    /\ call.seed.top >= 1
    /\ call.draws >= 2
    /\ call.v >= 500

(***************************************************************************)
(* selectDiverseBaseIndex on its own, for every draw of Draws and either   *)
(* outcome of the floor of a product that is a whole number.               *)
(***************************************************************************)

MaxSamplesLength == 10

MaxTotalCount == 10

IndexInit ==
    /\ rng = NewGenerator.rng
    /\ cumulativeDriftE = NewGenerator.cumulativeDriftE
    /\ cumulativeDriftN = NewGenerator.cumulativeDriftN
    /\ cumulativeDriftH = NewGenerator.cumulativeDriftH
    /\ calls = 0
    /\ Outside
    /\ \E samplesLength \in 1..MaxSamplesLength, totalCount \in 1..MaxTotalCount :
           \E currentIndex \in 0..(totalCount - 1) :
               call = [op |-> "generateRandomData", samplesLength |-> samplesLength,
                       currentIndex |-> currentIndex, totalCount |-> totalCount,
                       rangeStart |-> 0, rangeEnd |-> 0, baseIndex |-> 0]

\* The call after selectDiverseBaseIndex chose in range.
Selected(range, draw) ==
    call' = [call EXCEPT !.op = "selectDiverseBaseIndex",
                         !.rangeStart = range.rangeStart,
                         !.rangeEnd = range.rangeEnd,
                         !.baseIndex = BaseIndex(range, draw)]

\* const baseIndex = this.selectDiverseBaseIndex(samples.length, i, count)
SelectDiverseBaseIndex ==
    /\ call.op = "generateRandomData"
    /\ \E draw \in Draws, shortStart \in BOOLEAN, shortEnd \in BOOLEAN :
           LET range == BaseIndexRange(call.samplesLength, call.currentIndex,
                                       call.totalCount, shortStart, shortEnd)
           IN Selected(range, draw)
    /\ UNCHANGED <<rng, cumulativeDriftE, cumulativeDriftN, cumulativeDriftH, calls>>
    /\ UNCHANGED outerVars

IndexNext == SelectDiverseBaseIndex

IndexSpec == IndexInit /\ [][IndexNext]_vars

\* C26: the base index selectDiverseBaseIndex chooses is in its range and
\* the range is in the sample window:
\* 0 <= rangeStart <= index <= rangeEnd <= samplesLength - 1.
C26_BaseIndexInWindow ==
    call.op = "selectDiverseBaseIndex"
        => /\ 0 <= call.rangeStart
           /\ call.rangeStart <= call.baseIndex
           /\ call.baseIndex <= call.rangeEnd
           /\ call.rangeEnd <= call.samplesLength - 1

\* C26 happens: for the last point of several, in a window of four samples
\* or more, the largest draw chose the last index of a range of several.
C26_LastOfRangeChosen ==
    /\ call.op = "selectDiverseBaseIndex"
    /\ call.samplesLength >= 4
    /\ call.totalCount > 1
    /\ call.currentIndex = call.totalCount - 1
    /\ call.rangeStart < call.rangeEnd
    /\ call.baseIndex = call.rangeEnd

(***************************************************************************)
(* applyDriftCorrection on its own.                                        *)
(***************************************************************************)

\* referencePoint.E, N, H
References == {0, -5000, 12345}

\* newE - referencePoint.E, ...: around the threshold on both sides, small
\* and large.
Offsets == {-30000, -801, -800, -1, 0, 1, 800, 801, 30000}

DriftInit ==
    /\ rng = NewGenerator.rng
    /\ cumulativeDriftE = NewGenerator.cumulativeDriftE
    /\ cumulativeDriftN = NewGenerator.cumulativeDriftN
    /\ cumulativeDriftH = NewGenerator.cumulativeDriftH
    /\ calls = 0
    /\ Outside
    /\ \E reference \in References, dE \in Offsets, dN \in Offsets, dH \in Offsets :
           call = [op |-> "generateStabilizedDataPoint",
                   referencePoint |-> [E |-> reference, N |-> reference, H |-> reference],
                   newE |-> reference + dE, newN |-> reference + dN,
                   newH |-> reference + dH,
                   correctedPosition |-> [E |-> 0, N |-> 0, H |-> 0]]

\* The generator and the call after applyDriftCorrection returned r.
Corrected(r) ==
    /\ cumulativeDriftE' = r.cumulativeDriftE
    /\ cumulativeDriftN' = r.cumulativeDriftN
    /\ cumulativeDriftH' = r.cumulativeDriftH
    /\ call' = [call EXCEPT !.op = "applyDriftCorrection",
                            !.correctedPosition = [E |-> r.E, N |-> r.N, H |-> r.H]]

\* const correctedPosition = this.applyDriftCorrection(newE, newN, newH, ...)
ApplyDriftCorrection ==
    /\ call.op = "generateStabilizedDataPoint"
    /\ LET r == applyDriftCorrection(call.newE, call.newN, call.newH,
                                     call.referencePoint)
       IN Corrected(r)
    /\ UNCHANGED <<rng, calls>>
    /\ UNCHANGED outerVars

DriftNext == ApplyDriftCorrection

DriftSpec == DriftInit /\ [][DriftNext]_vars

\* The corrected coordinate is on the side of the reference the uncorrected
\* one is on, not farther from it, and is the uncorrected one when that is
\* within the threshold of the reference.
TowardsReference(newValue, corrected, reference) ==
    /\ newValue > reference => (corrected > reference /\ corrected <= newValue)
    /\ newValue < reference => (corrected < reference /\ corrected >= newValue)
    /\ newValue = reference => corrected = reference
    /\ Abs(newValue - reference) <= DRIFT_CORRECTION_THRESHOLD => corrected = newValue

\* C27: on each axis applyDriftCorrection moves the coordinate neither away
\* from the reference point nor past it, and returns it unchanged when it is
\* within DRIFT_CORRECTION_THRESHOLD of the reference point.
C27_CorrectedTowardsReference ==
    call.op = "applyDriftCorrection"
        => /\ TowardsReference(call.newE, call.correctedPosition.E, call.referencePoint.E)
           /\ TowardsReference(call.newN, call.correctedPosition.N, call.referencePoint.N)
           /\ TowardsReference(call.newH, call.correctedPosition.H, call.referencePoint.H)

\* C27 happens: one axis was corrected from above the reference point,
\* one from below it, and one at the threshold was left as it was.
C27_TwoAxesCorrected ==
    /\ call.op = "applyDriftCorrection"
    /\ call.newE - call.referencePoint.E > DRIFT_CORRECTION_THRESHOLD
    /\ call.correctedPosition.E < call.newE
    /\ call.referencePoint.N - call.newN > DRIFT_CORRECTION_THRESHOLD
    /\ call.correctedPosition.N > call.newN
    /\ call.newH - call.referencePoint.H = DRIFT_CORRECTION_THRESHOLD
    /\ call.correctedPosition.H = call.newH

\* C29: after the shutdown signal has set isRunning to false no job
\* identifier is added to processingJobs, whatever mainLoop was doing when
\* the signal arrived.
C29_NoJobBeginsAfterSignal ==
    [][(~isRunning) => (processingJobs' \subseteq processingJobs)]_vars

\* The payload reports a failed job: result = null and an error message.
ReportsFailure(payload) == payload.result = <<>> /\ payload.error # <<>>

\* C30: a job whose computation completed is not reported to the coordinator
\* as failed, however the request that submits its result ends.
C30_ComputedNeverReportedFailed ==
    submitted.computed
        => \A k \in 1..Len(submitted.payloads) : ~ReportsFailure(submitted.payloads[k])

=============================================================================
